---- MODULE Spec2Model ----
(***************************************************************************)
(* CCD calibration pipeline of calib-fits.                                 *)
(*                                                                         *)
(* Two orchestrators exist in the repository and both are modelled:        *)
(*   "pkg"    src/calibration/calib_core.py  (overscan/cosmetic/background)*)
(*   "legacy" src/calib_core.py                                            *)
(* They drive the same builders and appliers (src/calibration/*.py).  The  *)
(* command-line entry points of the builders and appliers are modelled in  *)
(* a second specification, ToolSpec.                                       *)
(*                                                                         *)
(* A FITS exposure is abstracted to a uniform frame: one integer level     *)
(* `val`, a shape id, and the header keys the code reads or writes.        *)
(* File names are sequences of tokens so that Path.stem arithmetic         *)
(* (endswith, suffix appending) and Python's string ordering are computed, *)
(* not assumed.                                                            *)
(***************************************************************************)
EXTENDS Integers, Sequences, FiniteSets, TLC

VARIABLES env, fs, lists, pc, run, log, written, err, tool

vars == <<env, fs, lists, pc, run, log, written, err, tool>>

(***************************************************************************)
(* Bounds                                                                  *)
(***************************************************************************)
\* largest number of files in the raw source (directory, list or archive)
MaxFrames == 3
\* largest number of runs of run_full_calibration on the same raw source
MaxRuns == 2

(***************************************************************************)
(* Strings, paths and Python's ordering of path strings                    *)
(***************************************************************************)
\* Rank of a token in Python's str comparison: ten times the ASCII code of
\* its first character, plus a tie-break that orders tokens sharing it.
Ord(c) ==
    CASE c = "-" -> 450
      [] c = ".FIT" -> 460 [] c = ".fit" -> 461 [] c = ".fits" -> 462
      [] c = ".lst" -> 463 [] c = ".txt" -> 464
      [] c = "/" -> 470
      [] c = "1" -> 490 [] c = "2" -> 500 [] c = "3" -> 510
      [] c = "4" -> 520 [] c = "5" -> 530 [] c = "6" -> 540
      [] c = "R" -> 820 [] c = "V" -> 860
      [] c = "_norm" -> 950
      [] c = "arc" -> 970 [] c = "archives" -> 971 [] c = "aux" -> 972
      [] c = "b" -> 980 [] c = "c" -> 990 [] c = "cwd" -> 991
      [] c = "d" -> 1000 [] c = "f" -> 1020
      [] c = "masterbias" -> 1090 [] c = "masterdark" -> 1091
      [] c = "masterflat_" -> 1092
      [] c = "o" -> 1110
      [] c = "raw" -> 1140 [] c = "results" -> 1141
      [] c = "sub" -> 1150
      [] c = "work" -> 1190
      [] c = "x" -> 1200 [] c = "z" -> 1220
      [] OTHER -> 0

RECURSIVE LexLess(_, _)
LexLess(s, t) ==
    IF s = <<>> THEN t # <<>>
    ELSE IF t = <<>> THEN FALSE
    ELSE IF Head(s) = Head(t) THEN LexLess(Tail(s), Tail(t))
    ELSE Ord(Head(s)) < Ord(Head(t))

\* a path is [dir, stem, ext]; str(path) is dir + "/" + stem + ext
Path(dir, stem, ext) == [dir |-> dir, stem |-> stem, ext |-> ext]
Str(p) == p.dir \o <<"/">> \o p.stem \o <<p.ext>>
PathLess(p, q) == LexLess(Str(p), Str(q))

\* str.endswith on a stem
EndsWith(s, suf) ==
    /\ Len(s) >= Len(suf)
    /\ SubSeq(s, Len(s) - Len(suf) + 1, Len(s)) = suf

\* Path.with_name(stem + suffix + ext)
WithSuffix(p, suf) == [p EXCEPT !.stem = p.stem \o suf]

RECURSIVE InsertSorted(_, _)
InsertSorted(p, s) ==
    IF s = <<>> THEN <<p>>
    ELSE IF PathLess(Head(s), p) THEN <<Head(s)>> \o InsertSorted(p, Tail(s))
    ELSE <<p>> \o s

\* sorted(list): duplicates are kept
RECURSIVE Sorted(_)
Sorted(s) == IF s = <<>> THEN <<>> ELSE InsertSorted(Head(s), Sorted(Tail(s)))

RECURSIVE SetToSeq(_)
SetToSeq(S) ==
    IF S = {} THEN <<>>
    ELSE LET p == CHOOSE q \in S : \A r \in S : r = q \/ PathLess(q, r)
         IN <<p>> \o SetToSeq(S \ {p})

\* sorted(set(list))
SortedSet(s) == SetToSeq({s[i] : i \in 1..Len(s)})

Range(s) == {s[i] : i \in 1..Len(s)}

RECURSIVE Reverse(_)
Reverse(s) == IF s = <<>> THEN <<>> ELSE Reverse(Tail(s)) \o <<Head(s)>>

(***************************************************************************)
(* Directories of the run context                                          *)
(***************************************************************************)
RawDir == <<"/", "raw">>
WorkDir == RawDir \o <<"/", "work">>
ResultsDir == RawDir \o <<"/", "results">>
AuxDir == ResultsDir \o <<"/", "aux">>
ArchiveDir == WorkDir \o <<"/", "archives", "/", "arc">>
ArchiveSubDir == ArchiveDir \o <<"/", "sub">>

FITS_EXTENSIONS == {".fits", ".fit", ".FITS", ".FIT"}

(***************************************************************************)
(* Exposures                                                               *)
(***************************************************************************)
\* rd: "ok", "badhdr" (fits.open raises) or "baddata" (header readable,
\* reading the array raises).  osl is the level of the overscan region.
\* ops (the corrections really applied to the array) and unit (signal, or
\* signal per unit time) are kept for the properties only.
Frame(typ, filt, exp, shape, val, rd) ==
    [typ |-> typ, filt |-> filt, exp |-> exp, shape |-> shape, val |-> val,
     osl |-> 10, rd |-> rd, ops |-> <<>>, unit |-> "adu",
     mb_file |-> "", md_file |-> "", md_meth |-> "", md_comb |-> "",
     md_persec |-> FALSE, nfrm |-> 0, mb_meth |-> ""]

\* a file that is not a FITS image at all
NoFrame == Frame("", "", 0, 0, 0, "badhdr")

(***************************************************************************)
(* The file system: a function from the paths that exist to their content  *)
(***************************************************************************)
IsFile(f, p) == p \in DOMAIN f

Put(f, p, v) == [q \in (DOMAIN f) \cup {p} |-> IF q = p THEN v ELSE f[q]]

RemoveDirs(f, dirs) == [q \in {r \in DOMAIN f : r.dir \notin dirs} |-> f[q]]

\* fits.open(p) succeeds: the file exists and its header can be read
CanOpen(f, p) == IsFile(f, p) /\ f[p].rd # "badhdr"

\* hdul[0].data.astype(...) succeeds
CanReadData(f, p) == CanOpen(f, p) /\ f[p].rd = "ok"

(***************************************************************************)
(* Candidate raw files.  A raw source holds at most MaxFrames of them.     *)
(***************************************************************************)
RawSubDir == RawDir \o <<"/", "sub">>

Entry(sub, stem, ext, frame) ==
    [sub |-> sub, stem |-> stem, ext |-> ext, frame |-> frame]

Pool ==
    { Entry(FALSE, <<"b", "1">>, ".fits", Frame("BIAS", "", 0, 1, 10, "ok")),
      Entry(FALSE, <<"b", "2">>, ".fits", Frame("BIAS", "", 0, 2, 10, "ok")),
      Entry(FALSE, <<"d", "1">>, ".fits", Frame("DARK", "", 10, 1, 40, "ok")),
      Entry(FALSE, <<"f", "1">>, ".fits", Frame("FLAT", "R", 2, 1, 116, "ok")),
      Entry(FALSE, <<"o", "1">>, ".fits", Frame("OBJECT", "R", 20, 1, 570, "ok")),
      Entry(TRUE,  <<"o", "1">>, ".fits", Frame("OBJECT", "R", 20, 1, 370, "ok")),
      Entry(FALSE, <<"o", "2">>, ".fit",  Frame("OBJECT", "V", 0, 1, 470, "ok")),
      Entry(FALSE, <<"o", "1", "-", "b">>, ".fits",
            Frame("OBJECT", "R", 20, 1, 270, "ok")),
      Entry(FALSE, <<"c", "1">>, ".fits", Frame("BIAS", "", 0, 1, 10, "badhdr")),
      Entry(FALSE, <<"z", "1">>, ".fits", Frame("ZERO", "", 0, 1, 10, "ok")),
      Entry(FALSE, <<"x">>, ".txt", NoFrame) }

\* where a member lies on disk: in the raw directory (or its subdirectory),
\* or, for an archive, where extraction puts it
PlaceOf(e, type) ==
    Path(IF type = "archive"
         THEN (IF e.sub THEN ArchiveSubDir ELSE ArchiveDir)
         ELSE (IF e.sub THEN RawSubDir ELSE RawDir),
         e.stem, e.ext)

FilesOf(members, type) ==
    [p \in {PlaceOf(e, type) : e \in members} |->
        (CHOOSE e \in members : PlaceOf(e, type) = p).frame]

Merge(f, g) == [q \in (DOMAIN f) \cup (DOMAIN g) |->
                   IF q \in DOMAIN g THEN g[q] ELSE f[q]]

(***************************************************************************)
(* Call signatures.  A Python call whose keywords or arity the callee does *)
(* not accept raises TypeError before the callee's body runs.              *)
(***************************************************************************)
Params(fn) ==
    CASE fn = "create_master_bias" ->
            <<"all_files", "cfg", "output_filename", "method", "sigma",
              "make_png", "verbose">>
      [] fn = "apply_bias_correction" ->
            <<"input_files", "masterbias_path", "cfg", "verbose">>
      [] fn = "make_master_dark" ->
            <<"all_files", "cfg", "output_filename", "method",
              "make_png_flag", "verbose">>
      [] fn = "apply_dark_correction" ->
            <<"input_files", "masterdark_path", "cfg", "verbose">>
      [] fn = "create_master_flats" -> <<"files", "cfg", "verbose">>
      [] fn = "apply_flat_correction" ->
            <<"list_in", "list_out", "cfg", "verbose">>

\* the leading parameters that have no default value
NRequired(fn) ==
    CASE fn = "create_master_bias" -> 2
      [] fn = "apply_bias_correction" -> 3
      [] fn = "make_master_dark" -> 2
      [] fn = "apply_dark_correction" -> 3
      [] fn = "create_master_flats" -> 2
      [] fn = "apply_flat_correction" -> 3

Call(npos, kw) == [npos |-> npos, kw |-> kw]

\* the call each orchestrator writes for each callee
CallOf(orch, fn) ==
    IF orch = "pkg" THEN
        CASE fn = "create_master_bias" ->
                Call(2, {"output_filename", "method", "sigma",
                         "make_png_flag", "verbose"})
          [] fn = "apply_bias_correction" ->
                Call(0, {"list_in", "list_out", "masterbias_file", "cfg",
                         "verbose"})
          [] fn = "make_master_dark" ->
                Call(2, {"output_filename", "method", "make_png_flag",
                         "verbose"})
          [] fn = "apply_dark_correction" ->
                Call(0, {"list_in", "list_out", "masterdark_file", "cfg",
                         "verbose"})
          [] fn = "create_master_flats" -> Call(2, {"verbose"})
          [] fn = "apply_flat_correction" ->
                Call(0, {"list_in", "list_out", "cfg", "verbose"})
    ELSE
        CASE fn = "create_master_bias" ->
                Call(2, {"output_filename", "method", "sigma", "make_png",
                         "verbose"})
          [] fn = "apply_bias_correction" -> Call(3, {"verbose"})
          [] fn = "make_master_dark" ->
                Call(2, {"output_filename", "method", "make_png", "verbose"})
          [] fn = "apply_dark_correction" -> Call(3, {"verbose"})
          [] fn = "create_master_flats" -> Call(2, {"verbose"})
          [] fn = "apply_flat_correction" -> Call(2, {"verbose"})

\* Python's binding of a call to a signature
Accepts(fn, call) ==
    LET ps == Params(fn)
        byPos == {ps[i] : i \in 1..(IF call.npos < Len(ps) THEN call.npos ELSE Len(ps))}
    IN /\ call.npos <= Len(ps)
       /\ call.kw \subseteq Range(ps)
       /\ call.kw \cap byPos = {}
       /\ \A i \in 1..NRequired(fn) : ps[i] \in byPos \cup call.kw

(***************************************************************************)
(* Frame classification                                                    *)
(***************************************************************************)
\* str(header.get(image_type_keyword, "")).strip().upper(); the model's
\* headers are stored trimmed and upper-case
ImageType(f, p) == f[p].typ

\* mkmasterbias._get_bias_label and bias_correction._get_bias_label:
\* BIAS_SUBTRACTION.bias_keyword, else HEADER_SPECIFICATION.bias_keyword,
\* else "BIAS"
BiasLabel(e) ==
    IF e.bias_kw.sec = "BIAS_SUBTRACTION" THEN e.bias_kw.label
    ELSE IF e.bias_kw.sec = "HEADER_SPECIFICATION" THEN e.bias_kw.label
    ELSE "BIAS"

\* dark_correction._get_bias_label: BIAS_SUBTRACTION.bias_keyword, else "BIAS"
DarkApplierBiasLabel(e) ==
    IF e.bias_kw.sec = "BIAS_SUBTRACTION" THEN e.bias_kw.label ELSE "BIAS"

\* DARK_SUBTRACTION.dark_keyword, else "DARK" (builder and applier agree)
DarkLabel(e) == IF e.dark_kw = "" THEN "DARK" ELSE e.dark_kw


(***************************************************************************)
(* Combination statistics on the levels of a stack                         *)
(***************************************************************************)
RECURSIVE InsertInt(_, _)
InsertInt(x, s) ==
    IF s = <<>> THEN <<x>>
    ELSE IF Head(s) < x THEN <<Head(s)>> \o InsertInt(x, Tail(s))
    ELSE <<x>> \o s

RECURSIVE SortInts(_)
SortInts(s) == IF s = <<>> THEN <<>> ELSE InsertInt(Head(s), SortInts(Tail(s)))

RECURSIVE Sum(_)
Sum(s) == IF s = <<>> THEN 0 ELSE Head(s) + Sum(Tail(s))

\* np.median / np.mean; the candidate frames are chosen so that the
\* divisions are exact
Median(vs) ==
    LET s == SortInts(vs)
        n == Len(s)
    IN IF n % 2 = 1 THEN s[(n + 1) \div 2]
       ELSE (s[n \div 2] + s[n \div 2 + 1]) \div 2

Mean(vs) == Sum(vs) \div Len(vs)

\* sigma_clip(stack, sigma) then nanmedian: a stack of equal levels has
\* zero deviation, so nothing is rejected
SigmaClippedMedian(vs) == Median(vs)

\* str.lower() on the method names that occur
Lower(m) ==
    CASE m = "MedianSigmaClipped" -> "mediansigmaclipped"
      [] m = "Median" -> "median"
      [] m = "Mean" -> "mean"
      [] m = "ScaledExposureMedian" -> "scaledexposuremedian"
      [] m = "ScaledExposureAverage" -> "scaledexposureaverage"
      [] m = "EqualExposure" -> "equalexposure"
      [] m = "EQUALEXPOSURE" -> "equalexposure"
      [] m = "SCALEDEXPOSUREMEDIAN" -> "scaledexposuremedian"
      [] OTHER -> m

SameShape(f, files) ==
    \A i, j \in 1..Len(files) : f[files[i]].shape = f[files[j]].shape

Levels(f, files) == [i \in 1..Len(files) |-> f[files[i]].val]

(***************************************************************************)
(* Master bias builder (mkmasterbias.py)                                   *)
(***************************************************************************)
MasterBiasPath(e) == Path(e.cfg_working_dir, <<"masterbias">>, ".fits")

\* find_bias_frames: a file that cannot be opened is skipped
FindBiasFrames(f, e, files) ==
    Sorted(SelectSeq(files,
        LAMBDA p : CanOpen(f, p) /\ ImageType(f, p) = BiasLabel(e)))

BiasMethodCfg(e, method) ==
    IF method # "" THEN method
    ELSE IF e.bias_method # "" THEN e.bias_method
    ELSE "MedianSigmaClipped"

CombineBias(method_cfg, vs) ==
    LET m == Lower(method_cfg)
    IN IF m = "mediansigmaclipped" THEN SigmaClippedMedian(vs)
       ELSE IF m = "median" THEN Median(vs)
       ELSE IF m \in {"average", "mean"} THEN Mean(vs)
       ELSE SigmaClippedMedian(vs)

BuildResult(error, f, path, wrote) ==
    [err |-> error, fs |-> f, path |-> path, wrote |-> wrote]

\* create_master_bias(all_files, cfg, method=...)
CreateMasterBias(f, e, all_files, method) ==
    LET out_path == MasterBiasPath(e)
        bias_files == FindBiasFrames(f, e, all_files)
        method_cfg == BiasMethodCfg(e, method)
    IN IF ~e.bias_subtraction THEN BuildResult("", f, out_path, {})
       ELSE IF bias_files = <<>> THEN BuildResult("RuntimeError", f, out_path, {})
       ELSE IF \E i \in 1..Len(bias_files) : ~CanReadData(f, bias_files[i])
            THEN BuildResult("OSError", f, out_path, {})
       ELSE IF ~SameShape(f, bias_files)
            THEN BuildResult("ValueError", f, out_path, {})
       ELSE LET master ==
                   [Frame("", "", 0, f[bias_files[1]].shape,
                          CombineBias(method_cfg, Levels(f, bias_files)), "ok")
                    EXCEPT !.nfrm = Len(bias_files), !.mb_meth = method_cfg]
            IN BuildResult("", Put(f, out_path, master), out_path, {out_path})

(***************************************************************************)
(* Bias applier (bias_correction.py)                                       *)
(***************************************************************************)
ApplyResult(error, f, out, wrote) ==
    [err |-> error, fs |-> f, out |-> out, wrote |-> wrote]

\* one pass of the per-file loop body; an exception raised for a file is
\* caught and the file contributes nothing
BiasOne(f, e, p, mb) ==
    IF ~CanOpen(f, p) THEN [done |-> FALSE]
    ELSE IF ImageType(f, p) = BiasLabel(e) THEN [done |-> FALSE]
    ELSE IF ~CanReadData(f, p) THEN [done |-> FALSE]
    ELSE IF f[p].shape # mb.shape THEN [done |-> FALSE]
    ELSE [done |-> TRUE,
          name |-> WithSuffix(p, <<"-", "b">>),
          frame |-> [f[p] EXCEPT !.val = @ - mb.val,
                                 !.mb_file = "masterbias.fits",
                                 !.ops = Append(@, "b")]]

RECURSIVE BiasLoop(_, _, _, _, _, _)
BiasLoop(f, e, files, mb, out, wrote) ==
    IF files = <<>> THEN ApplyResult("", f, out, wrote)
    ELSE LET r == BiasOne(f, e, Head(files), mb)
         IN IF r.done
            THEN BiasLoop(Put(f, r.name, r.frame), e, Tail(files), mb,
                          Append(out, r.name), wrote \cup {r.name})
            ELSE BiasLoop(f, e, Tail(files), mb, out, wrote)

\* apply_bias_correction(input_files, masterbias_path, cfg)
ApplyBiasCorrection(f, e, input_files, masterbias_path) ==
    IF ~IsFile(f, masterbias_path) THEN ApplyResult("FileNotFoundError", f, <<>>, {})
    ELSE IF ~CanReadData(f, masterbias_path) THEN ApplyResult("OSError", f, <<>>, {})
    ELSE BiasLoop(f, e, input_files, f[masterbias_path], <<>>, {})


(***************************************************************************)
(* Master dark builder (mkmasterdark.py)                                   *)
(***************************************************************************)
MasterDarkPath(e) == Path(e.cfg_working_dir, <<"masterdark">>, ".fits")
MasterDarkAuxPath(e) == Path(e.cfg_aux_dir, <<"masterdark">>, ".fits")

FindDarkFrames(f, e, files) ==
    Sorted(SelectSeq(files,
        LAMBDA p : CanOpen(f, p) /\ ImageType(f, p) = DarkLabel(e)))

\* method or IMAGE_PROCESSING.dark_correction_method or
\* DARK_SUBTRACTION.option or "ScaledExposureMedian"
DarkMethodCfg(e, method) ==
    IF method # "" THEN method
    ELSE IF e.dark_method_ip # "" THEN e.dark_method_ip
    ELSE IF e.dark_option # "" THEN e.dark_option
    ELSE "ScaledExposureMedian"

\* the builder compares the method name as written, case-sensitively
BuilderScales(method_cfg) == method_cfg # "EqualExposure"

Rates(f, files) == [i \in 1..Len(files) |-> f[files[i]].val \div f[files[i]].exp]

CombineDark(method_cfg, f, files) ==
    IF method_cfg = "ScaledExposureMedian" THEN Median(Rates(f, files))
    ELSE IF method_cfg = "ScaledExposureAverage" THEN Mean(Rates(f, files))
    ELSE IF method_cfg = "EqualExposure" THEN Median(Levels(f, files))
    ELSE Median(Rates(f, files))

\* the header keys the builder stamps on the master dark
DarkMasterHeader(fr, method_cfg) == [fr EXCEPT !.md_comb = method_cfg]

\* a library lookup that tries the working directory before the aux
\* directory
LibraryDarkWorkingFirst(e) == <<MasterDarkPath(e), MasterDarkAuxPath(e)>>

\* library mode: the places searched for the library dark, in order
LibraryDarkCandidates(e) == <<MasterDarkAuxPath(e), MasterDarkPath(e)>>

\* make_master_dark(all_files, cfg, method=...)
MakeMasterDark(f, e, all_files, method) ==
    LET out_path == MasterDarkPath(e)
        aux_path == MasterDarkAuxPath(e)
        method_cfg == DarkMethodCfg(e, method)
        dark_files == FindDarkFrames(f, e, all_files)
        valid == SelectSeq(dark_files, LAMBDA p : f[p].exp > 0)
        found == SelectSeq(LibraryDarkCandidates(e), LAMBDA c : IsFile(f, c))
    IN IF e.dark_lib THEN
            IF found # <<>> THEN BuildResult("", f, found[1], {})
            ELSE BuildResult("FileNotFoundError", f, out_path, {})
       ELSE IF ~e.dark_correction THEN BuildResult("", f, out_path, {})
       ELSE IF dark_files = <<>> THEN BuildResult("RuntimeError", f, out_path, {})
       ELSE IF \E i \in 1..Len(dark_files) : ~CanReadData(f, dark_files[i])
            THEN BuildResult("OSError", f, out_path, {})
       ELSE IF valid = <<>> THEN BuildResult("RuntimeError", f, out_path, {})
       ELSE IF ~SameShape(f, valid) THEN BuildResult("ValueError", f, out_path, {})
       ELSE LET master ==
                   DarkMasterHeader(
                       [Frame("", "", 0, f[valid[1]].shape,
                              CombineDark(method_cfg, f, valid), "ok")
                        EXCEPT !.unit = IF BuilderScales(method_cfg)
                                        THEN "adu/s" ELSE "adu"],
                       method_cfg)
            IN BuildResult("", Put(Put(f, out_path, master), aux_path, master),
                           out_path, {out_path, aux_path})

(***************************************************************************)
(* Dark applier (dark_correction.py)                                       *)
(***************************************************************************)
\* IMAGE_PROCESSING.dark_correction_method, default "ScaledExposureMedian"
ApplierDarkMethod(e) ==
    IF e.dark_method_ip # "" THEN e.dark_method_ip ELSE "ScaledExposureMedian"

\* per_second or method_lower in {"scaledexposuremedian", "scaledexposureaverage"}
ApplierScales(e, md) ==
    \/ md.md_persec
    \/ Lower(ApplierDarkMethod(e)) \in {"scaledexposuremedian", "scaledexposureaverage"}

\* stem endswith "-b": append "d"; otherwise append "-d"
DarkName(p) ==
    IF EndsWith(p.stem, <<"-", "b">>) THEN WithSuffix(p, <<"d">>)
    ELSE WithSuffix(p, <<"-", "d">>)

\* exptime <= 0 is replaced by 1.0
ApplierExptime(fr) == IF fr.exp <= 0 THEN 1 ELSE fr.exp

DarkOne(f, e, p, md) ==
    IF ~CanOpen(f, p) THEN [done |-> FALSE]
    ELSE IF ImageType(f, p) \in {DarkApplierBiasLabel(e), DarkLabel(e)}
         THEN [done |-> FALSE]
    ELSE IF ~CanReadData(f, p) THEN [done |-> FALSE]
    ELSE IF f[p].shape # md.shape THEN [done |-> FALSE]
    ELSE [done |-> TRUE,
          name |-> DarkName(p),
          frame |-> [f[p] EXCEPT
                       !.val = IF ApplierScales(e, md)
                               THEN @ - ApplierExptime(f[p]) * md.val
                               ELSE @ - md.val,
                       !.md_file = "masterdark.fits",
                       !.md_meth = ApplierDarkMethod(e),
                       !.ops = Append(@, "d")]]

\* a loop without the per-file try/except: the first file that cannot be
\* opened ends the whole batch
RECURSIVE DarkLoopFailFast(_, _, _, _, _, _)
DarkLoopFailFast(f, e, files, md, out, wrote) ==
    IF files = <<>> THEN ApplyResult("", f, out, wrote)
    ELSE IF ~CanOpen(f, Head(files)) THEN ApplyResult("OSError", f, out, wrote)
    ELSE LET r == DarkOne(f, e, Head(files), md)
         IN IF r.done
            THEN DarkLoopFailFast(Put(f, r.name, r.frame), e, Tail(files), md,
                                  Append(out, r.name), wrote \cup {r.name})
            ELSE DarkLoopFailFast(f, e, Tail(files), md, out, wrote)

RECURSIVE DarkLoop(_, _, _, _, _, _)
DarkLoop(f, e, files, md, out, wrote) ==
    IF files = <<>> THEN ApplyResult("", f, out, wrote)
    ELSE LET r == DarkOne(f, e, Head(files), md)
         IN IF r.done
            THEN DarkLoop(Put(f, r.name, r.frame), e, Tail(files), md,
                          Append(out, r.name), wrote \cup {r.name})
            ELSE DarkLoop(f, e, Tail(files), md, out, wrote)

\* apply_dark_correction(input_files, masterdark_path, cfg)
ApplyDarkCorrection(f, e, input_files, masterdark_path) ==
    IF ~IsFile(f, masterdark_path) THEN ApplyResult("FileNotFoundError", f, <<>>, {})
    ELSE IF ~CanReadData(f, masterdark_path) THEN ApplyResult("OSError", f, <<>>, {})
    ELSE DarkLoop(f, e, input_files, f[masterdark_path], <<>>, {})


(***************************************************************************)
(* Master flat builder (mkmasterflats.py)                                  *)
(***************************************************************************)
FilterValues == {"R", "V", ""}

MasterFlatPath(dir, filt) == Path(dir, <<"masterflat_", filt>>, ".fits")
MasterFlatNormPath(dir, filt) == Path(dir, <<"masterflat_", filt, "_norm">>, ".fits")

\* _get_filter_from_header
FilterFromHeader(e, fr) ==
    IF e.filters = {} THEN (IF fr.filt = "" THEN "UNKNOWN" ELSE fr.filt)
    ELSE IF fr.filt \in e.filters THEN fr.filt ELSE "UNKNOWN"

\* _normalize_flat on a uniform frame
NormalizeFlat(v) == IF v = 0 THEN v ELSE v \div v

\* an acceptance test without the upper limit on the signal
FlatAcceptedNoUpperLimit(e, fr, shape0) ==
    /\ fr.typ = "FLAT"
    /\ FilterFromHeader(e, fr) # "UNKNOWN"
    /\ ~(fr.val < e.flat_min_value)
    /\ (shape0 = 0 \/ fr.shape = shape0)

\* the acceptance test of one candidate, given the shape already recorded
\* for its filter (0: none yet)
FlatAccepted(e, fr, shape0) ==
    /\ fr.typ = "FLAT"
    /\ FilterFromHeader(e, fr) # "UNKNOWN"
    /\ ~(fr.val < e.flat_min_value)
    /\ ~(e.flat_max_value > 0 /\ fr.val > e.flat_max_value)
    /\ (shape0 = 0 \/ fr.shape = shape0)

\* the first loop: groups maps each filter to the accepted files, in order
RECURSIVE FlatGroups(_, _, _, _)
FlatGroups(f, e, files, groups) ==
    IF files = <<>> THEN groups
    ELSE LET p == Head(files)
             fr == f[p]
             filt == FilterFromHeader(e, fr)
             shape0 == IF filt \in DOMAIN groups /\ groups[filt] # <<>>
                       THEN f[groups[filt][1]].shape ELSE 0
         IN IF FlatAccepted(e, fr, shape0)
            THEN FlatGroups(f, e, Tail(files),
                            [groups EXCEPT ![filt] = Append(@, p)])
            ELSE FlatGroups(f, e, Tail(files), groups)

EmptyGroups == [x \in FilterValues |-> <<>>]

FlatEntry(filt, flat, norm) == [filt |-> filt, flat |-> flat, norm |-> norm]

\* the second loop: one (master, normalized master) pair per filter, written
\* to the working directory and copied to the aux directory
RECURSIVE WriteFlats(_, _, _, _, _, _)
WriteFlats(f, e, todo, groups, results, wrote) ==
    IF todo = {} THEN [err |-> "", fs |-> f, flats |-> results, wrote |-> wrote]
    ELSE LET filt == CHOOSE x \in todo : TRUE
             files == groups[filt]
             last == f[files[Len(files)]]
             flat_path == MasterFlatPath(e.cfg_working_dir, filt)
             norm_path == MasterFlatNormPath(e.cfg_working_dir, filt)
             aux_flat == MasterFlatPath(e.cfg_aux_dir, filt)
             aux_norm == MasterFlatNormPath(e.cfg_aux_dir, filt)
             median_flat == [last EXCEPT !.val = Median(Levels(f, files))]
             median_norm == [last EXCEPT !.val =
                 Median([i \in 1..Len(files) |-> NormalizeFlat(f[files[i]].val)])]
             f1 == Put(Put(f, flat_path, median_flat), norm_path, median_norm)
             f2 == Put(Put(f1, aux_flat, median_flat), aux_norm, median_norm)
         IN WriteFlats(f2, e, todo \ {filt}, groups,
                       results \cup {FlatEntry(filt, flat_path, norm_path)},
                       wrote \cup {flat_path, norm_path, aux_flat, aux_norm})

\* library mode: scan the aux directory, then the working directory; an
\* entry found later replaces the one found earlier for the same filter
LibraryFlatIn(f, e, base_dir, filt) ==
    LET norm_file == MasterFlatNormPath(base_dir, filt)
        cands == <<MasterFlatPath(base_dir, filt),
                   MasterFlatPath(e.cfg_working_dir, filt),
                   MasterFlatPath(e.cfg_aux_dir, filt)>>
        hits == SelectSeq(cands, LAMBDA c : IsFile(f, c))
    IN IF IsFile(f, norm_file) /\ hits # <<>>
       THEN {FlatEntry(filt, hits[1], norm_file)} ELSE {}

LibraryFlats(f, e) ==
    UNION { IF LibraryFlatIn(f, e, e.cfg_working_dir, filt) # {}
            THEN LibraryFlatIn(f, e, e.cfg_working_dir, filt)
            ELSE LibraryFlatIn(f, e, e.cfg_aux_dir, filt)
            : filt \in FilterValues }

\* create_master_flats(files, cfg)
CreateMasterFlats(f, e, files) ==
    LET existing == SelectSeq(files, LAMBDA p : IsFile(f, p))
        groups == FlatGroups(f, e, existing, EmptyGroups)
    IN IF ~e.flat_correction
       THEN [err |-> "", fs |-> f, flats |-> {}, wrote |-> {}]
       ELSE IF e.flat_lib
       THEN [err |-> "", fs |-> f, flats |-> LibraryFlats(f, e), wrote |-> {}]
       ELSE IF \E i \in 1..Len(existing) : ~CanReadData(f, existing[i])
       THEN [err |-> "OSError", fs |-> f, flats |-> {}, wrote |-> {}]
       ELSE WriteFlats(f, e, {x \in FilterValues : groups[x] # <<>>}, groups, {}, {})

(***************************************************************************)
(* Flat applier (flat_correction.py)                                       *)
(***************************************************************************)
ListNames == {"pipeline_raw.lst", "pipeline_bias_corrected.lst",
              "pipeline_dark_corrected.lst", "pipeline_flat_corrected.lst",
              "raw.lst", "raw-b.lst", "raw-d.lst", "raw-bd.lst", "raw-bf.lst",
              "raw-df.lst", "raw-bdf.lst", "out.lst"}

NoList == [exists |-> FALSE, items |-> <<>>]
ListOf(items) == [exists |-> TRUE, items |-> items]

\* a lookup that takes the normalized master flat of any filter
NormFlatAny(f, e, filt) ==
    LET hits == {q \in DOMAIN f :
                   \E d \in {e.cfg_working_dir, e.cfg_aux_dir}, x \in FilterValues :
                       q = MasterFlatNormPath(d, x)}
    IN IF hits = {} THEN <<>> ELSE <<CHOOSE q \in hits : TRUE>>

\* working directory first, then the aux directory
NormFlatFor(f, e, filt) ==
    LET w == MasterFlatNormPath(e.cfg_working_dir, filt)
        a == MasterFlatNormPath(e.cfg_aux_dir, filt)
    IN IF IsFile(f, w) THEN <<w>> ELSE IF IsFile(f, a) THEN <<a>> ELSE <<>>

\* remove "-bd" if present, then append "-bdf"; written to the results dir
FlatName(e, p) ==
    LET stem == IF EndsWith(p.stem, <<"-", "b", "d">>)
                THEN SubSeq(p.stem, 1, Len(p.stem) - 3) ELSE p.stem
    IN Path(e.cfg_results_dir, stem \o <<"-", "b", "d", "f">>, p.ext)

\* division with non-finite results set to zero
FlatDivide(v, n) == IF n = 0 THEN 0 ELSE v \div n

FlatOne(f, e, p) ==
    IF ~IsFile(f, p) THEN [done |-> FALSE]
    ELSE IF ~CanReadData(f, p) THEN [done |-> FALSE]
    ELSE IF f[p].typ # "OBJECT" THEN [done |-> FALSE]
    ELSE IF e.filters # {} /\ f[p].filt \notin e.filters THEN [done |-> FALSE]
    ELSE IF NormFlatFor(f, e, f[p].filt) = <<>> THEN [done |-> FALSE]
    ELSE LET nf == NormFlatFor(f, e, f[p].filt)[1]
         IN IF ~CanReadData(f, nf) THEN [done |-> FALSE]
            ELSE IF f[nf].shape # f[p].shape THEN [done |-> FALSE]
            ELSE [done |-> TRUE,
                  name |-> FlatName(e, p),
                  frame |-> [f[p] EXCEPT !.val = FlatDivide(@, f[nf].val),
                                         !.ops = Append(@, "f")]]

RECURSIVE FlatLoop(_, _, _, _, _)
FlatLoop(f, e, files, out, wrote) ==
    IF files = <<>> THEN ApplyResult("", f, out, wrote)
    ELSE LET r == FlatOne(f, e, Head(files))
         IN IF r.done
            THEN FlatLoop(Put(f, r.name, r.frame), e, Tail(files),
                          Append(out, r.name), wrote \cup {r.name})
            ELSE FlatLoop(f, e, Tail(files), out, wrote)

\* the body of apply_flat_correction(list_in, list_out, cfg): the files it
\* writes and its internal output_files
FlatCorrectionBody(f, e, ls, list_in) ==
    IF ~ls[list_in].exists THEN ApplyResult("FileNotFoundError", f, <<>>, {})
    ELSE FlatLoop(f, e, ls[list_in].items, <<>>, {})

\* the list file it leaves: list_out is written only when something was
\* corrected
FlatCorrectionLists(ls, list_out, out) ==
    IF out # <<>> THEN [ls EXCEPT ![list_out] = ListOf(out)] ELSE ls

\* a Python value that is either None or a list
None == [none |-> TRUE, items |-> <<>>]
Some(items) == [none |-> FALSE, items |-> items]

\* what apply_flat_correction returns to its caller: the function has no
\* return statement
FlatCorrectionReturn(out) == None


(***************************************************************************)
(* Post processors (calibration/calib_core.py)                             *)
(***************************************************************************)
Min(a, b) == IF a < b THEN a ELSE b
Max(a, b) == IF a > b THEN a ELSE b

\* array dimensions of the two shapes that occur
Dims(shape) == IF shape = 1 THEN [ys |-> 4, xs |-> 4] ELSE [ys |-> 2, xs |-> 2]

\* the region, clamped to the image, is empty
RegionEmpty(region, shape) ==
    LET d == Dims(shape)
        xx1 == Max(0, Min(d.xs, region.x1))
        xx2 == Max(0, Min(d.xs, region.x2))
        yy1 == Max(0, Min(d.ys, region.y1))
        yy2 == Max(0, Min(d.ys, region.y2))
    IN xx1 >= xx2 \/ yy1 >= yy2

\* _add_suffix(fname, "-o")
OverscanName(p) == WithSuffix(p, <<"-", "o">>)

\* the loop body: on any exception the original file is forwarded
OverscanOne(f, e, p) ==
    IF ~CanReadData(f, p) THEN [done |-> FALSE]
    ELSE IF RegionEmpty(e.ov_region, f[p].shape) THEN [done |-> FALSE]
    ELSE [done |-> TRUE,
          name |-> OverscanName(p),
          frame |-> [f[p] EXCEPT !.val = @ - f[p].osl, !.osl = 0,
                                 !.ops = Append(@, "o")]]

\* a loop that leaves a frame it could not correct out of its result
RECURSIVE OverscanLoopDropsFailed(_, _, _, _, _)
OverscanLoopDropsFailed(f, e, files, out, wrote) ==
    IF files = <<>> THEN ApplyResult("", f, out, wrote)
    ELSE LET r == OverscanOne(f, e, Head(files))
         IN IF r.done
            THEN OverscanLoopDropsFailed(Put(f, r.name, r.frame), e, Tail(files),
                                         Append(out, r.name), wrote \cup {r.name})
            ELSE OverscanLoopDropsFailed(f, e, Tail(files), out, wrote)

RECURSIVE OverscanLoop(_, _, _, _, _)
OverscanLoop(f, e, files, out, wrote) ==
    IF files = <<>> THEN ApplyResult("", f, out, wrote)
    ELSE LET r == OverscanOne(f, e, Head(files))
         IN IF r.done
            THEN OverscanLoop(Put(f, r.name, r.frame), e, Tail(files),
                              Append(out, r.name), wrote \cup {r.name})
            ELSE OverscanLoop(f, e, Tail(files), Append(out, Head(files)), wrote)

\* the stage runs: enabled, region set and parseable
OverscanRuns(e) == e.ov_enabled /\ e.ov_region.state = "ok"

\* _apply_overscan_if_enabled(input_files)
ApplyOverscanIfEnabled(f, e, input_files) ==
    IF ~OverscanRuns(e) THEN ApplyResult("", f, input_files, {})
    ELSE OverscanLoop(f, e, input_files, <<>>, {})

\* the cosmetic stage runs: enabled, mask set, present and readable
CosmeticRuns(e) == e.cos_enabled /\ e.cos_mask.state = "ok"

\* in-place update of one final file; a failure leaves the file as it is
CosmeticOne(f, e, p) ==
    IF ~CanReadData(f, p) THEN f
    ELSE IF e.cos_mask.shape # f[p].shape THEN f
    ELSE Put(f, p, [f[p] EXCEPT !.ops = Append(@, "c")])

CosmeticTouches(f, e, p) == CanReadData(f, p) /\ e.cos_mask.shape = f[p].shape

RECURSIVE CosmeticLoop(_, _, _, _)
CosmeticLoop(f, e, files, wrote) ==
    IF files = <<>> THEN [fs |-> f, wrote |-> wrote]
    ELSE CosmeticLoop(CosmeticOne(f, e, Head(files)), e, Tail(files),
                      IF CosmeticTouches(f, e, Head(files))
                      THEN wrote \cup {Head(files)} ELSE wrote)

\* _apply_cosmetic_if_enabled(final_files): iterating None raises TypeError
ApplyCosmeticIfEnabled(f, e, final_files) ==
    IF ~CosmeticRuns(e)
    THEN [err |-> "", fs |-> f, out |-> final_files, wrote |-> {}]
    ELSE IF final_files.none
    THEN [err |-> "TypeError", fs |-> f, out |-> final_files, wrote |-> {}]
    ELSE LET r == CosmeticLoop(f, e, final_files.items, {})
         IN [err |-> "", fs |-> r.fs, out |-> final_files, wrote |-> r.wrote]

\* the box-averaged background of a uniform frame is the frame itself
BackgroundOne(f, p) ==
    IF ~CanReadData(f, p) THEN f
    ELSE Put(f, p, [f[p] EXCEPT !.val = @ - f[p].val, !.ops = Append(@, "g")])

RECURSIVE BackgroundLoop(_, _, _)
BackgroundLoop(f, files, wrote) ==
    IF files = <<>> THEN [fs |-> f, wrote |-> wrote]
    ELSE BackgroundLoop(BackgroundOne(f, Head(files)), Tail(files),
                        IF CanReadData(f, Head(files))
                        THEN wrote \cup {Head(files)} ELSE wrote)

\* _apply_background_if_enabled(final_files)
ApplyBackgroundIfEnabled(f, e, final_files) ==
    IF ~e.bkg_enabled
    THEN [err |-> "", fs |-> f, out |-> final_files, wrote |-> {}]
    ELSE IF final_files.none
    THEN [err |-> "TypeError", fs |-> f, out |-> final_files, wrote |-> {}]
    ELSE LET r == BackgroundLoop(f, final_files.items, {})
         IN [err |-> "", fs |-> r.fs, out |-> final_files, wrote |-> r.wrote]


(***************************************************************************)
(* Input collection (_collect_input_files of both orchestrators)           *)
(***************************************************************************)
IsFits(p) == p.ext \in FITS_EXTENSIONS

\* directory: iterdir() is not recursive
CollectDirectory(f) ==
    SetToSeq({p \in DOMAIN f : p.dir = RawDir /\ IsFits(p)})

\* list: every line that names an existing FITS file, then sorted(files)
CollectList(f, lines) ==
    Sorted(SelectSeq(lines, LAMBDA p : IsFits(p) /\ IsFile(f, p)))

\* archive: a previous extraction is removed, the members are extracted
ExtractArchive(f, members) ==
    Merge(RemoveDirs(f, {ArchiveDir, ArchiveSubDir}), FilesOf(members, "archive"))

\* archive: rglob("*") under the extraction directory
CollectArchive(f) ==
    SetToSeq({p \in DOMAIN f : p.dir \in {ArchiveDir, ArchiveSubDir} /\ IsFits(p)})

CollectInputFiles(f, e) ==
    IF e.src_type = "directory" THEN [fs |-> f, files |-> CollectDirectory(f)]
    ELSE IF e.src_type = "list" THEN [fs |-> f, files |-> CollectList(f, e.lines)]
    ELSE LET g == ExtractArchive(f, e.members)
         IN [fs |-> g, files |-> CollectArchive(g)]

(***************************************************************************)
(* The orchestrators: run_full_calibration, one action per stage           *)
(***************************************************************************)
NoPath == Path(<<>>, <<>>, "")

RunInit ==
    [input_files |-> <<>>, files_for_pipeline |-> <<>>,
     calib_master_files |-> <<>>, bias_corrected_files |-> <<>>,
     dark_corrected_files |-> <<>>, final_files |-> Some(<<>>),
     list_raw |-> "", list_b |-> "", list_bd |-> "",
     masterbias_path |-> NoPath, masterdark_path |-> NoPath,
     masterflats |-> {}, flat_out |-> <<>>, ret |-> None, trace |-> <<>>,
     n |-> 1, prev |-> [input_files |-> <<>>, outputs |-> <<>>]]

\* a command-line session: the tools the user plans to run, and a record of
\* every tool run so far
ToolInit == [plan |-> {}, calls |-> <<>>]

\* a pipeline whose flat stages are wired the wrong way round
StageAfterFlatsSwapped(orch, stage) ==
    CASE stage = "Collecting" ->
            (IF orch = "pkg" THEN "Overscanning" ELSE "BiasBuilding")
      [] stage = "Overscanning" -> "Listing"
      [] stage = "Listing" -> "BiasBuilding"
      [] stage = "BiasBuilding" -> "BiasCorrecting"
      [] stage = "BiasCorrecting" -> "DarkBuilding"
      [] stage = "DarkBuilding" -> "DarkCorrecting"
      [] stage = "DarkCorrecting" -> "FlatCorrecting"
      [] stage = "FlatCorrecting" -> "FlatBuilding"
      [] stage = "FlatBuilding" ->
            (IF orch = "pkg" THEN "Cosmetic" ELSE "Completing")
      [] stage = "Cosmetic" -> "Background"
      [] stage = "Background" -> "Completing"
      [] stage = "Completing" -> "Done"

\* the position reached when the stage at `stage` has finished
StageAfter(orch, stage) ==
    CASE stage = "Collecting" ->
            (IF orch = "pkg" THEN "Overscanning" ELSE "BiasBuilding")
      [] stage = "Overscanning" -> "Listing"
      [] stage = "Listing" -> "BiasBuilding"
      [] stage = "BiasBuilding" -> "BiasCorrecting"
      [] stage = "BiasCorrecting" -> "DarkBuilding"
      [] stage = "DarkBuilding" -> "DarkCorrecting"
      [] stage = "DarkCorrecting" -> "FlatBuilding"
      [] stage = "FlatBuilding" -> "FlatCorrecting"
      [] stage = "FlatCorrecting" ->
            (IF orch = "pkg" THEN "Cosmetic" ELSE "Completing")
      [] stage = "Cosmetic" -> "Background"
      [] stage = "Background" -> "Completing"
      [] stage = "Completing" -> "Done"

\* the position reached when the stage pair starting at `stage` is disabled
StageSkipped(orch, stage) == StageAfter(orch, StageAfter(orch, stage))

Began(stage) == [run EXCEPT !.trace = Append(@, stage)]

Wrote(stage, paths) == written \cup {[stage |-> stage, path |-> q] : q \in paths}

\* a raised exception leaves run_full_calibration
Abort(error, r, f, w) ==
    /\ pc' = "Aborted"
    /\ err' = error
    /\ run' = r
    /\ fs' = f
    /\ written' = w

\* the frame list each orchestrator hands to the master builders
BuilderFiles(orch, r, stage) ==
    IF orch = "pkg" THEN r.calib_master_files
    ELSE IF stage = "BiasBuilding" THEN r.input_files
    ELSE IF stage = "DarkBuilding" THEN r.bias_corrected_files
    ELSE r.dark_corrected_files

\* the frame list a stage receives from its predecessor
StageInput(orch, r, stage) ==
    IF stage = "BiasBuilding"
    THEN (IF orch = "pkg" THEN r.files_for_pipeline ELSE r.input_files)
    ELSE IF stage = "DarkBuilding" THEN r.bias_corrected_files
    ELSE r.dark_corrected_files

\* a collection step that lets an empty frame list into the pipeline
CollectNoCheck ==
    /\ pc = "Collecting"
    /\ LET c == CollectInputFiles(fs, env)
       IN /\ log' = Append(log, "FOUND")
          /\ pc' = StageAfter(env.orch, "Collecting")
          /\ run' = [Began("Collecting") EXCEPT !.input_files = c.files]
          /\ fs' = c.fs
          /\ written' = Wrote("Collecting", (DOMAIN c.fs) \ (DOMAIN fs))
    /\ UNCHANGED <<env, lists, err, tool>>

Collect ==
    /\ pc = "Collecting"
    /\ LET c == CollectInputFiles(fs, env)
           r == [Began("Collecting") EXCEPT !.input_files = c.files]
           w == Wrote("Collecting", (DOMAIN c.fs) \ (DOMAIN fs))
       IN /\ log' = Append(log, "FOUND")
          /\ IF c.files = <<>>
             THEN Abort("RuntimeError", r, c.fs, w)
             ELSE /\ pc' = StageAfter(env.orch, "Collecting")
                  /\ run' = r
                  /\ fs' = c.fs
                  /\ written' = w
                  /\ err' = err
    /\ UNCHANGED <<env, lists, tool>>

Overscan ==
    /\ pc = "Overscanning"
    /\ LET res == ApplyOverscanIfEnabled(fs, env, run.input_files)
           r0 == IF OverscanRuns(env) THEN Began("Overscanning") ELSE run
       IN /\ log' = IF OverscanRuns(env) THEN Append(log, "OVERSCAN CORRECTION")
                    ELSE IF env.ov_enabled THEN Append(log, "OVERSCAN SKIPPED")
                    ELSE log
          /\ run' = [r0 EXCEPT !.files_for_pipeline = res.out]
          /\ fs' = res.fs
          /\ written' = Wrote("Overscanning", res.wrote)
          /\ pc' = StageAfter(env.orch, "Overscanning")
    /\ UNCHANGED <<env, lists, err, tool>>

\* pipeline_raw.lst and the list handed to the master builders
PrepareLists ==
    /\ pc = "Listing"
    /\ lists' = [lists EXCEPT !["pipeline_raw.lst"] = ListOf(run.files_for_pipeline)]
    /\ run' = [run EXCEPT
                 !.list_raw = "pipeline_raw.lst",
                 !.calib_master_files =
                     IF env.extra_calib_files # <<>>
                     THEN SortedSet(run.files_for_pipeline \o env.extra_calib_files)
                     ELSE run.files_for_pipeline]
    /\ log' = IF env.extra_calib_files # <<>> THEN Append(log, "EXTRA") ELSE log
    /\ pc' = StageAfter(env.orch, "Listing")
    /\ UNCHANGED <<env, fs, written, err, tool>>


\* a disabled stage that loses the first frame of its list
PassThroughDropsFirst(files) == IF files = <<>> THEN files ELSE Tail(files)

\* a disabled stage hands on the list it received
PassThrough(files) == files

BiasBuild ==
    /\ pc = "BiasBuilding"
    /\ IF env.bias_subtraction
       THEN LET r0 == Began("BiasBuilding")
                b == CreateMasterBias(fs, env,
                         BuilderFiles(env.orch, run, "BiasBuilding"), env.bias_method)
            IN /\ log' = Append(log, "CREATING MASTER BIAS")
               /\ lists' = lists
               /\ IF ~Accepts("create_master_bias", CallOf(env.orch, "create_master_bias"))
                  THEN Abort("TypeError", r0, fs, written)
                  ELSE IF b.err # ""
                  THEN Abort(b.err, r0, b.fs, Wrote("BiasBuilding", b.wrote))
                  ELSE /\ run' = [r0 EXCEPT !.masterbias_path = b.path]
                       /\ fs' = b.fs
                       /\ written' = Wrote("BiasBuilding", b.wrote)
                       /\ pc' = StageAfter(env.orch, "BiasBuilding")
                       /\ err' = err
       ELSE /\ log' = Append(log, "BIAS DISABLED")
            /\ run' = [run EXCEPT
                         !.bias_corrected_files =
                             PassThrough(StageInput(env.orch, run, "BiasBuilding")),
                         !.list_b = run.list_raw]
            /\ pc' = StageSkipped(env.orch, "BiasBuilding")
            /\ UNCHANGED <<fs, lists, written, err>>
    /\ UNCHANGED <<env, tool>>

BiasCorrect ==
    /\ pc = "BiasCorrecting"
    /\ LET r0 == Began("BiasCorrecting")
           a == ApplyBiasCorrection(fs, env,
                    StageInput(env.orch, run, "BiasBuilding"), run.masterbias_path)
       IN /\ log' = Append(log, "BIAS CORRECTION")
          /\ IF ~Accepts("apply_bias_correction", CallOf(env.orch, "apply_bias_correction"))
             THEN Abort("TypeError", r0, fs, written)
             ELSE IF a.err # ""
             THEN Abort(a.err, r0, a.fs, Wrote("BiasCorrecting", a.wrote))
             ELSE /\ run' = [r0 EXCEPT !.bias_corrected_files = a.out,
                                       !.list_b = "pipeline_bias_corrected.lst"]
                  /\ fs' = a.fs
                  /\ written' = Wrote("BiasCorrecting", a.wrote)
                  /\ pc' = StageAfter(env.orch, "BiasCorrecting")
                  /\ err' = err
    /\ UNCHANGED <<env, lists, tool>>

DarkBuild ==
    /\ pc = "DarkBuilding"
    /\ IF env.dark_correction
       THEN LET r0 == Began("DarkBuilding")
                b == MakeMasterDark(fs, env,
                         BuilderFiles(env.orch, run, "DarkBuilding"), env.dark_method_ip)
            IN /\ log' = Append(log, "CREATING MASTER DARK")
               /\ lists' = lists
               /\ IF ~Accepts("make_master_dark", CallOf(env.orch, "make_master_dark"))
                  THEN Abort("TypeError", r0, fs, written)
                  ELSE IF b.err # ""
                  THEN Abort(b.err, r0, b.fs, Wrote("DarkBuilding", b.wrote))
                  ELSE /\ run' = [r0 EXCEPT !.masterdark_path = b.path]
                       /\ fs' = b.fs
                       /\ written' = Wrote("DarkBuilding", b.wrote)
                       /\ pc' = StageAfter(env.orch, "DarkBuilding")
                       /\ err' = err
       ELSE /\ log' = Append(log, "DARK DISABLED")
            /\ run' = [run EXCEPT
                         !.dark_corrected_files =
                             PassThrough(StageInput(env.orch, run, "DarkBuilding")),
                         !.list_bd = run.list_b]
            /\ pc' = StageSkipped(env.orch, "DarkBuilding")
            /\ UNCHANGED <<fs, lists, written, err>>
    /\ UNCHANGED <<env, tool>>

DarkCorrect ==
    /\ pc = "DarkCorrecting"
    /\ LET r0 == Began("DarkCorrecting")
           a == ApplyDarkCorrection(fs, env,
                    StageInput(env.orch, run, "DarkBuilding"), run.masterdark_path)
       IN /\ log' = Append(log, "DARK CORRECTION")
          /\ IF ~Accepts("apply_dark_correction", CallOf(env.orch, "apply_dark_correction"))
             THEN Abort("TypeError", r0, fs, written)
             ELSE IF a.err # ""
             THEN Abort(a.err, r0, a.fs, Wrote("DarkCorrecting", a.wrote))
             ELSE /\ run' = [r0 EXCEPT !.dark_corrected_files = a.out,
                                       !.list_bd = "pipeline_dark_corrected.lst"]
                  /\ fs' = a.fs
                  /\ written' = Wrote("DarkCorrecting", a.wrote)
                  /\ pc' = StageAfter(env.orch, "DarkCorrecting")
                  /\ err' = err
    /\ UNCHANGED <<env, lists, tool>>

FlatBuild ==
    /\ pc = "FlatBuilding"
    /\ IF env.flat_correction
       THEN LET r0 == Began("FlatBuilding")
                b == CreateMasterFlats(fs, env,
                         BuilderFiles(env.orch, run, "FlatBuilding"))
            IN /\ log' = Append(log, "CREATING MASTER FLATS")
               /\ lists' = lists
               /\ IF ~Accepts("create_master_flats", CallOf(env.orch, "create_master_flats"))
                  THEN Abort("TypeError", r0, fs, written)
                  ELSE IF b.err # ""
                  THEN Abort(b.err, r0, b.fs, Wrote("FlatBuilding", b.wrote))
                  ELSE /\ run' = [r0 EXCEPT !.masterflats = b.flats]
                       /\ fs' = b.fs
                       /\ written' = Wrote("FlatBuilding", b.wrote)
                       /\ pc' = StageAfter(env.orch, "FlatBuilding")
                       /\ err' = err
       ELSE /\ log' = Append(log, "FLAT DISABLED")
            /\ run' = [run EXCEPT
                         !.final_files =
                             Some(PassThrough(StageInput(env.orch, run, "FlatBuilding")))]
            /\ pc' = StageSkipped(env.orch, "FlatBuilding")
            /\ UNCHANGED <<fs, lists, written, err>>
    /\ UNCHANGED <<env, tool>>

\* the pkg orchestrator passes list files; the legacy one passes the list
FlatCorrect ==
    /\ pc = "FlatCorrecting"
    /\ LET r0 == Began("FlatCorrecting")
           a == FlatCorrectionBody(fs, env, lists, run.list_bd)
       IN /\ log' = Append(log, "FLAT CORRECTION")
          /\ IF ~Accepts("apply_flat_correction", CallOf(env.orch, "apply_flat_correction"))
             THEN /\ Abort("TypeError", r0, fs, written)
                  /\ lists' = lists
             ELSE IF a.err # ""
             THEN /\ Abort(a.err, r0, a.fs, Wrote("FlatCorrecting", a.wrote))
                  /\ lists' = lists
             ELSE /\ run' = [r0 EXCEPT !.final_files = FlatCorrectionReturn(a.out),
                                       !.flat_out = a.out]
                  /\ fs' = a.fs
                  /\ lists' = FlatCorrectionLists(lists, "pipeline_flat_corrected.lst", a.out)
                  /\ written' = Wrote("FlatCorrecting", a.wrote)
                  /\ pc' = StageAfter(env.orch, "FlatCorrecting")
                  /\ err' = err
    /\ UNCHANGED <<env, tool>>

Cosmetic ==
    /\ pc = "Cosmetic"
    /\ LET res == ApplyCosmeticIfEnabled(fs, env, run.final_files)
           r0 == IF CosmeticRuns(env) THEN Began("Cosmetic") ELSE run
       IN /\ log' = IF CosmeticRuns(env) THEN Append(log, "COSMETIC CORRECTION")
                    ELSE IF env.cos_enabled THEN Append(log, "COSMETIC SKIPPED")
                    ELSE log
          /\ IF res.err # ""
             THEN Abort(res.err, r0, res.fs, written)
             ELSE /\ run' = [r0 EXCEPT !.final_files = res.out]
                  /\ fs' = res.fs
                  /\ written' = Wrote("Cosmetic", res.wrote)
                  /\ pc' = StageAfter(env.orch, "Cosmetic")
                  /\ err' = err
    /\ UNCHANGED <<env, lists, tool>>

Background ==
    /\ pc = "Background"
    /\ LET res == ApplyBackgroundIfEnabled(fs, env, run.final_files)
           r0 == IF env.bkg_enabled THEN Began("Background") ELSE run
       IN /\ log' = IF env.bkg_enabled THEN Append(log, "BACKGROUND MODELLING") ELSE log
          /\ IF res.err # ""
             THEN Abort(res.err, r0, res.fs, written)
             ELSE /\ run' = [r0 EXCEPT !.final_files = res.out]
                  /\ fs' = res.fs
                  /\ written' = Wrote("Background", res.wrote)
                  /\ pc' = StageAfter(env.orch, "Background")
                  /\ err' = err
    /\ UNCHANGED <<env, lists, tool>>

\* the final log lines and the return statement
Complete ==
    /\ pc = "Completing"
    /\ log' = Append(log, "CALIBRATION COMPLETE")
    /\ run' = [run EXCEPT !.ret = run.final_files]
    /\ pc' = StageAfter(env.orch, "Completing")
    /\ UNCHANGED <<env, fs, lists, written, err, tool>>


(***************************************************************************)
(* Initial states: a configuration, a raw source, a fresh run              *)
(***************************************************************************)
Region(state, x1, x2, y1, y2) ==
    [state |-> state, x1 |-> x1, x2 |-> x2, y1 |-> y1, y2 |-> y2]

\* columns 3:4 of every row 0:4: inside a 4x4 frame, outside a 2x2 frame
OverscanRegion == Region("ok", 3, 4, 0, 4)

Mask(state, shape) == [state |-> state, shape |-> shape]

\* the configuration keys at their defaults
DefaultEnv ==
    [orch |-> "pkg", src_type |-> "directory", members |-> {}, lines |-> <<>>,
     bias_subtraction |-> TRUE, dark_correction |-> TRUE, flat_correction |-> TRUE,
     ov_enabled |-> FALSE, ov_region |-> OverscanRegion,
     cos_enabled |-> FALSE, cos_mask |-> Mask("ok", 1),
     bkg_enabled |-> FALSE,
     bias_method |-> "", dark_method_ip |-> "", dark_option |-> "",
     bias_kw |-> [sec |-> "", label |-> ""], dark_kw |-> "",
     dark_lib |-> FALSE, flat_lib |-> FALSE,
     flat_min_value |-> 0, flat_max_value |-> 0, filters |-> {},
     extra_calib_files |-> <<>>,
     working_dir |-> WorkDir, results_dir |-> ResultsDir, results_aux_dir |-> AuxDir,
     cfg_working_dir |-> WorkDir, cfg_results_dir |-> ResultsDir,
     cfg_aux_dir |-> AuxDir]

Sources == {S \in SUBSET Pool : Cardinality(S) <= MaxFrames}

\* the lines of a list file naming the members: unsorted, and possibly
\* naming the first file twice
LinesOf(members, dup) ==
    LET s == Reverse(SetToSeq({PlaceOf(m, "list") : m \in members}))
    IN IF dup /\ s # <<>> THEN s \o <<s[1]>> ELSE s

Init ==
    /\ \E orch \in {"pkg", "legacy"}, type \in {"directory", "list", "archive"},
          members \in Sources, dup \in BOOLEAN,
          b, d, fl, ov, cos, bkg \in BOOLEAN :
          /\ dup => type = "list"
          /\ orch = "legacy" => ~ov /\ ~cos /\ ~bkg
          /\ env = [DefaultEnv EXCEPT
                      !.orch = orch, !.src_type = type, !.members = members,
                      !.lines = IF type = "list" THEN LinesOf(members, dup) ELSE <<>>,
                      !.bias_subtraction = b, !.dark_correction = d,
                      !.flat_correction = fl, !.ov_enabled = ov,
                      !.cos_enabled = cos, !.bkg_enabled = bkg]
          /\ fs = IF type = "archive" THEN FilesOf({}, type)
                  ELSE FilesOf(members, type)
    /\ lists = [n \in ListNames |-> NoList]
    /\ pc = "Collecting"
    /\ run = RunInit
    /\ log = <<>>
    /\ written = {}
    /\ err = ""
    /\ tool = ToolInit

Next ==
    \/ Collect
    \/ Overscan
    \/ PrepareLists
    \/ BiasBuild
    \/ BiasCorrect
    \/ DarkBuild
    \/ DarkCorrect
    \/ FlatBuild
    \/ FlatCorrect
    \/ Cosmetic
    \/ Background
    \/ Complete

Spec == Init /\ [][Next]_vars


(***************************************************************************)
(* Command-line sessions: calib_prep_lists, then the builders and appliers *)
(* through their own entry points, in pipeline order.  Each tool is its    *)
(* own process: a failing tool does not stop the tools run after it.       *)
(***************************************************************************)
\* calib_prep_lists.SUFFIXES, as token sequences, with the list each names
ListSuffix(name) ==
    CASE name = "raw.lst" -> <<>>
      [] name = "raw-b.lst" -> <<"-", "b">>
      [] name = "raw-d.lst" -> <<"-", "d">>
      [] name = "raw-bd.lst" -> <<"-", "b", "d">>
      [] name = "raw-bf.lst" -> <<"-", "b", "f">>
      [] name = "raw-df.lst" -> <<"-", "d", "f">>
      [] name = "raw-bdf.lst" -> <<"-", "b", "d", "f">>

DerivedLists == {"raw-b.lst", "raw-d.lst", "raw-bd.lst", "raw-bf.lst",
                 "raw-df.lst", "raw-bdf.lst"}

\* modified_filename(original, suffix) over a list
ModifiedNames(originals, suf) ==
    [i \in 1..Len(originals) |-> WithSuffix(originals[i], suf)]

\* generate_lists(base_name, originals)
GenerateLists(ls, originals) ==
    [n \in DOMAIN ls |->
        IF n = "raw.lst" THEN (IF ls[n].exists THEN ls[n] ELSE ListOf(originals))
        ELSE IF n \in DerivedLists THEN ListOf(ModifiedNames(originals, ListSuffix(n)))
        ELSE ls[n]]

ToolSteps == <<"mkmasterbias", "bias_correction", "mkmasterdark",
               "dark_correction", "mkmasterflats", "flat_correction">>

StepGroup(step) ==
    IF step \in {"mkmasterbias", "bias_correction"} THEN "bias"
    ELSE IF step \in {"mkmasterdark", "dark_correction"} THEN "dark"
    ELSE "flat"

StepIndex(step) == CHOOSE i \in 1..Len(ToolSteps) : ToolSteps[i] = step

\* the next tool of the plan after position i of ToolSteps
NextStep(plan, i) ==
    LET later == {j \in (i + 1)..Len(ToolSteps) : StepGroup(ToolSteps[j]) \in plan}
    IN IF later = {} THEN "SessionEnd"
       ELSE ToolSteps[CHOOSE j \in later : \A k \in later : j <= k]

\* the list, by the naming convention of calib_prep_lists, that holds the
\* frames a tool of `group` works on, given the corrections run before it
ListFor(plan, group) ==
    LET b == "bias" \in plan /\ group # "bias"
        d == "dark" \in plan /\ group = "flat"
    IN IF b /\ d THEN "raw-bd.lst"
       ELSE IF b THEN "raw-b.lst"
       ELSE IF d THEN "raw-d.lst"
       ELSE "raw.lst"

CallRecord(name, input, pre, error, out, wrote) ==
    [name |-> name, input |-> input, pre |-> pre, err |-> error, out |-> out,
     wrote |-> wrote]

Called(c) == [tool EXCEPT !.calls = Append(@, c)]

\* fits_files_in_directory: sorted, not recursive
FitsFilesInDirectory(f) ==
    SetToSeq({p \in DOMAIN f : p.dir = RawDir /\ p.ext \in FITS_EXTENSIONS})

\* build_lists_from_directory
PrepLists ==
    /\ pc = "PrepLists"
    /\ LET originals == FitsFilesInDirectory(fs)
       IN IF originals = <<>>
          THEN /\ pc' = "SessionEnd"
               /\ err' = "ValueError"
               /\ lists' = lists
          ELSE /\ pc' = NextStep(tool.plan, 0)
               /\ err' = err
               /\ lists' = GenerateLists(lists, originals)
    /\ UNCHANGED <<env, fs, run, log, written, tool>>

\* mkmasterbias._cli
ToolMasterBias ==
    /\ pc = "mkmasterbias"
    /\ LET files == lists[ListFor(tool.plan, "bias")].items
           b == CreateMasterBias(fs, env, files, "")
       IN /\ fs' = b.fs
          /\ tool' = Called(CallRecord("mkmasterbias", files, fs, b.err, <<b.path>>, b.wrote))
    /\ pc' = NextStep(tool.plan, StepIndex("mkmasterbias"))
    /\ UNCHANGED <<env, lists, run, log, written, err>>

\* bias_correction._cli
ToolBiasCorrection ==
    /\ pc = "bias_correction"
    /\ LET files == lists[ListFor(tool.plan, "bias")].items
           a == ApplyBiasCorrection(fs, env, files, MasterBiasPath(env))
       IN /\ fs' = a.fs
          /\ tool' = Called(CallRecord("bias_correction", files, fs, a.err, a.out, a.wrote))
    /\ pc' = NextStep(tool.plan, StepIndex("bias_correction"))
    /\ UNCHANGED <<env, lists, run, log, written, err>>

\* mkmasterdark.main
ToolMasterDark ==
    /\ pc = "mkmasterdark"
    /\ LET files == lists[ListFor(tool.plan, "dark")].items
           b == MakeMasterDark(fs, env, files, "")
       IN /\ fs' = b.fs
          /\ tool' = Called(CallRecord("mkmasterdark", files, fs, b.err, <<b.path>>, b.wrote))
    /\ pc' = NextStep(tool.plan, StepIndex("mkmasterdark"))
    /\ UNCHANGED <<env, lists, run, log, written, err>>

\* dark_correction._cli
ToolDarkCorrection ==
    /\ pc = "dark_correction"
    /\ LET files == lists[ListFor(tool.plan, "dark")].items
           a == ApplyDarkCorrection(fs, env, files, MasterDarkPath(env))
       IN /\ fs' = a.fs
          /\ tool' = Called(CallRecord("dark_correction", files, fs, a.err, a.out, a.wrote))
    /\ pc' = NextStep(tool.plan, StepIndex("dark_correction"))
    /\ UNCHANGED <<env, lists, run, log, written, err>>

\* mkmasterflats.main
ToolMasterFlats ==
    /\ pc = "mkmasterflats"
    /\ LET files == lists[ListFor(tool.plan, "flat")].items
           b == CreateMasterFlats(fs, env, files)
       IN /\ fs' = b.fs
          /\ tool' = Called(CallRecord("mkmasterflats", files, fs, b.err,
                                       SetToSeq({x.norm : x \in b.flats}), b.wrote))
    /\ pc' = NextStep(tool.plan, StepIndex("mkmasterflats"))
    /\ UNCHANGED <<env, lists, run, log, written, err>>

\* flat_correction.main
ToolFlatCorrection ==
    /\ pc = "flat_correction"
    /\ LET list_in == ListFor(tool.plan, "flat")
           a == FlatCorrectionBody(fs, env, lists, list_in)
       IN /\ fs' = a.fs
          /\ lists' = FlatCorrectionLists(lists, "out.lst", a.out)
          /\ tool' = Called(CallRecord("flat_correction", lists[list_in].items, fs,
                                       a.err, a.out, a.wrote))
    /\ pc' = NextStep(tool.plan, StepIndex("flat_correction"))
    /\ UNCHANGED <<env, run, log, written, err>>

\* the configurations of the dark combination method: the value of
\* IMAGE_PROCESSING.dark_correction_method and of DARK_SUBTRACTION.option
DarkMethodConfigs ==
    { <<"", "">>, <<"ScaledExposureMedian", "">>, <<"ScaledExposureAverage", "">>,
      <<"EqualExposure", "">>, <<"equalexposure", "">>, <<"Foo", "">>,
      <<"", "EqualExposure">> }

\* the configurations of the bias label
BiasLabelConfigs ==
    { [sec |-> "", label |-> ""],
      [sec |-> "BIAS_SUBTRACTION", label |-> "ZERO"],
      [sec |-> "HEADER_SPECIFICATION", label |-> "ZERO"] }

ToolSpecInit ==
    /\ \E members \in Sources, dm \in DarkMethodConfigs, bk \in BiasLabelConfigs,
          plan \in SUBSET {"bias", "dark", "flat"} :
          /\ env = [DefaultEnv EXCEPT
                      !.orch = "cli", !.members = members,
                      !.dark_method_ip = dm[1], !.dark_option = dm[2],
                      !.bias_kw = bk]
          /\ fs = FilesOf(members, "directory")
          /\ tool = [ToolInit EXCEPT !.plan = plan]
    /\ lists = [n \in ListNames |-> NoList]
    /\ pc = "PrepLists"
    /\ run = RunInit
    /\ log = <<>>
    /\ written = {}
    /\ err = ""

ToolNext ==
    \/ PrepLists
    \/ ToolMasterBias
    \/ ToolBiasCorrection
    \/ ToolMasterDark
    \/ ToolDarkCorrection
    \/ ToolMasterFlats
    \/ ToolFlatCorrection

ToolSpec == ToolSpecInit /\ [][ToolNext]_vars


(***************************************************************************)
(* Properties of run_full_calibration                                      *)
(***************************************************************************)
StageRank(stage) ==
    CASE stage = "Collecting" -> 1
      [] stage = "Overscanning" -> 2
      [] stage = "BiasBuilding" -> 3
      [] stage = "BiasCorrecting" -> 4
      [] stage = "DarkBuilding" -> 5
      [] stage = "DarkCorrecting" -> 6
      [] stage = "FlatBuilding" -> 7
      [] stage = "FlatCorrecting" -> 8
      [] stage = "Cosmetic" -> 9
      [] stage = "Background" -> 10

Started(stage) == \E i \in DOMAIN run.trace : run.trace[i] = stage

\* C1: the stages a run has started appear in the fixed order Collecting,
\* Overscanning, BiasBuilding, BiasCorrecting, DarkBuilding, DarkCorrecting,
\* FlatBuilding, FlatCorrecting, Cosmetic, Background, none of them twice,
\* a correction stage starts only after its builder has, and when it starts
\* the master it reads is a complete file on disk; Done is reached only from
\* the end of that sequence.
C1_StageOrder ==
    /\ \A i, j \in DOMAIN run.trace :
          i < j => StageRank(run.trace[i]) < StageRank(run.trace[j])
    /\ Started("BiasCorrecting") =>
          /\ Started("BiasBuilding")
          /\ CanReadData(fs, run.masterbias_path)
    /\ Started("DarkCorrecting") =>
          /\ Started("DarkBuilding")
          /\ CanReadData(fs, run.masterdark_path)
    /\ Started("FlatCorrecting") =>
          /\ Started("FlatBuilding")
          /\ \A m \in run.masterflats :
                CanReadData(fs, m.flat) /\ CanReadData(fs, m.norm)
    /\ pc = "Done" => Started("Collecting")

\* a run that built a master bias and went on to read it, and a run that
\* built master flats, read them and reached Done
C1_Witness ==
    \/ /\ pc = "DarkBuilding"
       /\ Started("BiasCorrecting")
       /\ run.bias_corrected_files # <<>>
    \/ /\ pc = "Done"
       /\ Started("FlatCorrecting")
       /\ run.masterflats # {}

\* C2: a stage whose flag is false is skipped: the list it hands on is the
\* list it received, same paths in the same order, it writes no file, and
\* its correction step never starts.
C2_SkippedStagePassesThrough ==
    [][ /\ (pc = "Overscanning" /\ ~env.ov_enabled) =>
              /\ run'.files_for_pipeline = run.input_files
              /\ fs' = fs /\ written' = written /\ pc' = "Listing"
        /\ (pc = "BiasBuilding" /\ ~env.bias_subtraction) =>
              /\ run'.bias_corrected_files = StageInput(env.orch, run, "BiasBuilding")
              /\ fs' = fs /\ written' = written /\ pc' = "DarkBuilding"
        /\ (pc = "DarkBuilding" /\ ~env.dark_correction) =>
              /\ run'.dark_corrected_files = run.bias_corrected_files
              /\ fs' = fs /\ written' = written /\ pc' = "FlatBuilding"
        /\ (pc = "FlatBuilding" /\ ~env.flat_correction) =>
              /\ run'.final_files = Some(run.dark_corrected_files)
              /\ fs' = fs /\ written' = written
              /\ pc' \in {"Cosmetic", "Completing"}
        /\ (pc = "Cosmetic" /\ ~env.cos_enabled) =>
              /\ run'.final_files = run.final_files
              /\ fs' = fs /\ written' = written /\ pc' = "Background"
        /\ (pc = "Background" /\ ~env.bkg_enabled) =>
              /\ run'.final_files = run.final_files
              /\ fs' = fs /\ written' = written /\ pc' = "Completing"
        /\ run'.trace = run.trace \/ \E st \in {"Collecting", "Overscanning",
                "BiasBuilding", "BiasCorrecting", "DarkBuilding", "DarkCorrecting",
                "FlatBuilding", "FlatCorrecting", "Cosmetic", "Background"} :
              /\ run'.trace = Append(run.trace, st)
              /\ st = "Overscanning" => env.ov_enabled
              /\ st \in {"BiasBuilding", "BiasCorrecting"} => env.bias_subtraction
              /\ st \in {"DarkBuilding", "DarkCorrecting"} => env.dark_correction
              /\ st \in {"FlatBuilding", "FlatCorrecting"} => env.flat_correction
              /\ st = "Cosmetic" => env.cos_enabled
              /\ st = "Background" => env.bkg_enabled ]_vars

\* a run with every stage switched off that handed its input list, bias,
\* dark and flat frames included, through to the caller
C2_Witness ==
    /\ pc = "Done"
    /\ ~env.ov_enabled /\ ~env.bias_subtraction /\ ~env.dark_correction
    /\ ~env.flat_correction /\ ~env.cos_enabled /\ ~env.bkg_enabled
    /\ Len(run.input_files) >= 2
    /\ run.ret = Some(run.input_files)
    /\ written \subseteq {w \in written : w.stage = "Collecting"}


\* C3: a run that reaches Done with the flat stage enabled returns the
\* ordered list of the paths the flat applier wrote.
C3_ReturnsFlatApplierOutputs ==
    (pc = "Done" /\ env.flat_correction) => run.ret = Some(run.flat_out)

\* C4: every path of the returned list is an object frame.
C4_ReturnsOnlyObjectFrames ==
    (pc = "Done" /\ ~run.ret.none) =>
        \A i \in DOMAIN run.ret.items :
            /\ IsFile(fs, run.ret.items[i])
            /\ ImageType(fs, run.ret.items[i]) = "OBJECT"

RunOutputDirs == {env.working_dir, env.results_dir, env.results_aux_dir}

\* C5: when collection yields no file the run ends at once with a fatal
\* error: Collecting is the only stage that started, nothing was written to
\* the working, results or aux directory, no list file exists and no stage
\* banner is in the log.
C5_NoFilesFatalBeforeAnyStage ==
    (pc # "Collecting" /\ run.input_files = <<>>) =>
        /\ pc = "Aborted"
        /\ err = "RuntimeError"
        /\ run.trace = <<"Collecting">>
        /\ \A w \in written : w.stage = "Collecting"
        /\ \A q \in DOMAIN fs : q.dir \notin RunOutputDirs
        /\ \A n \in ListNames : ~lists[n].exists
        /\ \A i \in DOMAIN log : log[i] = "FOUND"

\* an archive that holds files, none of them a FITS file, with stages enabled
C5_Witness ==
    /\ pc = "Aborted"
    /\ run.input_files = <<>>
    /\ env.src_type = "archive"
    /\ env.members # {}
    /\ DOMAIN fs # {}
    /\ env.bias_subtraction /\ env.ov_enabled

LastStage == run.trace[Len(run.trace)]

\* C6: a run aborts only when collection found no file, or when an enabled
\* bias (dark) builder found no frame classified as bias (dark) and so wrote
\* no master.
C6_AbortsOnlyWithoutFilesOrMaster ==
    pc = "Aborted" =>
        \/ run.input_files = <<>>
        \/ /\ LastStage = "BiasBuilding"
           /\ FindBiasFrames(fs, env, BuilderFiles(env.orch, run, "BiasBuilding")) = <<>>
           /\ ~IsFile(fs, MasterBiasPath(env))
        \/ /\ LastStage = "DarkBuilding"
           /\ SelectSeq(FindDarkFrames(fs, env,
                            BuilderFiles(env.orch, run, "DarkBuilding")),
                        LAMBDA q : fs[q].exp > 0) = <<>>
           /\ ~IsFile(fs, MasterDarkPath(env))


(***************************************************************************)
(* Properties of the builders and appliers, over the tool runs of a        *)
(* command-line session                                                    *)
(***************************************************************************)
Builders == {"mkmasterbias", "mkmasterdark", "mkmasterflats"}
Appliers == {"bias_correction", "dark_correction", "flat_correction"}

\* the file system a tool run left behind
PostOf(i) == IF i = Len(tool.calls) THEN fs ELSE tool.calls[i + 1].pre

\* the candidates of a builder run that are sound frames of the builder's type
ValidCandidates(c) ==
    {c.input[k] : k \in {j \in DOMAIN c.input :
        /\ CanReadData(c.pre, c.input[j])
        /\ CASE c.name = "mkmasterbias" ->
                    ImageType(c.pre, c.input[j]) = BiasLabel(env)
             [] c.name = "mkmasterdark" ->
                    /\ ImageType(c.pre, c.input[j]) = DarkLabel(env)
                    /\ c.pre[c.input[j]].exp > 0
             [] c.name = "mkmasterflats" ->
                    FlatAccepted(env, c.pre[c.input[j]], 0)}}

\* C7: a builder given at least one sound frame of its type builds its
\* master, whatever bad candidates (unreadable, or of another shape) come
\* with it.
C7_BadCandidateNeverAbortsBuild ==
    \A i \in DOMAIN tool.calls :
        LET c == tool.calls[i]
        IN (c.name \in Builders /\ ValidCandidates(c) # {}) =>
               (c.err = "" /\ c.wrote # {})

MasterReady(c) ==
    CASE c.name = "bias_correction" -> CanReadData(c.pre, MasterBiasPath(env))
      [] c.name = "dark_correction" -> CanReadData(c.pre, MasterDarkPath(env))
      [] c.name = "flat_correction" -> TRUE

\* the output path an applier gives the exposure at p
OutName(c, p) ==
    CASE c.name = "bias_correction" -> WithSuffix(p, <<"-", "b">>)
      [] c.name = "dark_correction" -> DarkName(p)
      [] c.name = "flat_correction" -> FlatName(env, p)

\* the applier's loop body corrects the exposure at p
Corrects(c, p) ==
    CASE c.name = "bias_correction" ->
            BiasOne(c.pre, env, p, c.pre[MasterBiasPath(env)]).done
      [] c.name = "dark_correction" ->
            DarkOne(c.pre, env, p, c.pre[MasterDarkPath(env)]).done
      [] c.name = "flat_correction" -> FlatOne(c.pre, env, p).done

\* processing the exposure at p raises: the file is missing or cannot be
\* read
Raises(c, p) == ~CanReadData(c.pre, p)

\* C8: an applier whose master is at hand returns normally whatever its
\* exposures do; an exposure that raises has no entry in the output list,
\* and the output list names, in input order, every exposure the loop body
\* corrects.
C8_AppliersBestEffortPerFile ==
    \A i \in DOMAIN tool.calls :
        LET c == tool.calls[i]
            good == SelectSeq(c.input, LAMBDA q : Corrects(c, q))
        IN (c.name \in Appliers /\ MasterReady(c)) =>
               /\ c.err = ""
               /\ c.out = [k \in 1..Len(good) |-> OutName(c, good[k])]
               /\ \A k \in DOMAIN c.input :
                     Raises(c, c.input[k]) =>
                         \A j \in DOMAIN c.out : c.out[j] # OutName(c, c.input[k])

\* a dark applier run that met a file it could not open and still corrected
\* an exposure that came after it
C8_Witness ==
    \E i \in DOMAIN tool.calls :
        LET c == tool.calls[i]
        IN /\ c.name = "dark_correction"
           /\ MasterReady(c)
           /\ c.err = ""
           /\ \E k, j \in DOMAIN c.input :
                 /\ k < j
                 /\ Raises(c, c.input[k])
                 /\ Corrects(c, c.input[j])
                 /\ IsFile(fs, OutName(c, c.input[j]))

\* C9: the bias applier gives no output for a bias frame and one output for
\* every other sound frame; the dark applier gives no output for a bias or a
\* dark frame; the flat applier gives output for object frames only.
C9_AppliersSkipTheirCalibrationFrames ==
    \A i \in DOMAIN tool.calls :
        LET c == tool.calls[i]
            outs == Range(c.out)
        IN (c.name \in Appliers /\ MasterReady(c)) =>
             \A k \in DOMAIN c.input :
                LET p == c.input[k]
                    typ == IF CanOpen(c.pre, p) THEN ImageType(c.pre, p) ELSE ""
                IN CASE c.name = "bias_correction" ->
                          /\ typ = BiasLabel(env) => OutName(c, p) \notin outs
                          /\ (/\ CanReadData(c.pre, p)
                              /\ typ # BiasLabel(env)
                              /\ c.pre[p].shape = c.pre[MasterBiasPath(env)].shape)
                                => OutName(c, p) \in outs
                     [] c.name = "dark_correction" ->
                          typ \in {BiasLabel(env), DarkLabel(env)} =>
                              OutName(c, p) \notin outs
                     [] c.name = "flat_correction" ->
                          typ # "OBJECT" => OutName(c, p) \notin outs

\* the level the dark applier should remove from an exposure, given the kind
\* of master it reads
DarkToRemove(md, fr) == IF md.unit = "adu/s" THEN fr.exp * md.val ELSE md.val

\* C10: the dark applier removes exposure-duration times a per-time master
\* and removes an equal-exposure master as it is, whatever the configured
\* method name; a per-time master carries the per-time flag.
C10_ApplierScalingMatchesMaster ==
    \A i \in DOMAIN tool.calls :
        LET c == tool.calls[i]
            md == c.pre[MasterDarkPath(env)]
        IN (c.name = "dark_correction" /\ MasterReady(c)) =>
             /\ md.unit = "adu/s" => md.md_persec
             /\ \A k \in DOMAIN c.input :
                   LET p == c.input[k]
                   IN (Corrects(c, p) /\ c.pre[p].exp > 0) =>
                         PostOf(i)[OutName(c, p)].val =
                             c.pre[p].val - DarkToRemove(md, c.pre[p])


\* C11: the dark applier skips an exposure whose exposure duration is not
\* positive: it writes no file for it and leaves it out of its output list.
C11_NonPositiveExposureSkipped ==
    \A i \in DOMAIN tool.calls :
        LET c == tool.calls[i]
        IN (c.name = "dark_correction" /\ MasterReady(c)) =>
             \A k \in DOMAIN c.input :
                LET p == c.input[k]
                IN (CanReadData(c.pre, p) /\ c.pre[p].exp <= 0) =>
                      /\ OutName(c, p) \notin Range(c.out)
                      /\ OutName(c, p) \notin c.wrote


CorrectionStages == {"Overscanning", "BiasCorrecting", "DarkCorrecting", "FlatCorrecting"}

\* the corrections a frame has really received, in the order received
Corrections(fr) == SelectSeq(fr.ops, LAMBDA x : x \in {"o", "b", "d", "f"})

\* the letters a name carries after the raw stem `st`
NameLetters(p, st) ==
    SelectSeq(SubSeq(p.stem, Len(st) + 1, Len(p.stem)), LAMBDA x : x # "-")

IsPrefix(st, stem) == Len(st) <= Len(stem) /\ SubSeq(stem, 1, Len(st)) = st

\* C12: the name of every frame a correction stage wrote is a raw name of the
\* run followed by one letter per correction really applied to the frame, in
\* stage order, and nothing else.
C12_NameTellsCorrectionsApplied ==
    \A w \in written :
        (w.stage \in CorrectionStages /\ IsFile(fs, w.path)) =>
            \E m \in env.members :
                /\ IsPrefix(m.stem, w.path.stem)
                /\ NameLetters(w.path, m.stem) = Corrections(fs[w.path])


(***************************************************************************)
(* Repeated runs: the command line (or the GUI) starts run_full_calibration *)
(* again with the same configuration on the same raw source.  The files on *)
(* disk stay; the pipeline object, its log and its lists of paths are new. *)
(***************************************************************************)
\* the frames the stages of this run wrote, with their array levels
RunOutputs ==
    LET ps == {w.path : w \in {x \in written : x.stage # "Collecting"}} \cap DOMAIN fs
    IN [q \in ps |-> fs[q].val]

Rerun ==
    /\ pc = "Done"
    /\ run.n < MaxRuns
    /\ pc' = "Collecting"
    /\ run' = [RunInit EXCEPT !.n = run.n + 1,
                              !.prev = [input_files |-> run.input_files,
                                        outputs |-> RunOutputs]]
    /\ log' = <<>>
    /\ written' = {}
    /\ UNCHANGED <<env, fs, lists, err, tool>>

RerunNext ==
    \/ Next
    \/ Rerun

RerunSpec == Init /\ [][RerunNext]_vars

\* C13: a second run with the same configuration on the same raw source
\* collects the same input files and leaves the same output paths with the
\* same arrays as the first.
C13_RerunIsIdempotent ==
    (pc = "Done" /\ run.n > 1) =>
        /\ run.input_files = run.prev.input_files
        /\ RunOutputs = run.prev.outputs

(***************************************************************************)
(* Output file names                                                       *)
(***************************************************************************)
Distinct(s) == \A i, j \in DOMAIN s : i # j => s[i] # s[j]

\* C14: writes never collide on output file names: a stage never writes
\* to the path of an exposure of the run's input set, and distinct
\* exposures handed to an applier never get the same output path
C14_WritesNeverCollide ==
    /\ \A w \in written :
           w.stage \in CorrectionStages => w.path \notin Range(run.input_files)
    /\ Distinct(StageInput(env.orch, run, "BiasBuilding"))
           => Distinct(run.bias_corrected_files)
    /\ Distinct(run.bias_corrected_files) => Distinct(run.dark_corrected_files)
    /\ (run.list_bd # "" /\ Distinct(lists[run.list_bd].items))
           => Distinct(run.flat_out)

(***************************************************************************)
(* Masters and their library copies                                        *)
(***************************************************************************)
AuxTwin(q) == Path(env.cfg_aux_dir, q.stem, q.ext)

\* C15: after every successful build of a master from frames, each master
\* exists under its fixed name in the working directory and an identical
\* copy exists under the same name in the aux directory
C15_MastersMirroredToAux ==
    \A i \in DOMAIN tool.calls :
        LET c == tool.calls[i]
            post == PostOf(i)
        IN (c.name \in Builders /\ c.err = "" /\ c.wrote # {}) =>
               \A q \in c.wrote :
                   q.dir = env.cfg_working_dir =>
                       /\ IsFile(post, q)
                       /\ IsFile(post, AuxTwin(q))
                       /\ post[AuxTwin(q)] = post[q]

(***************************************************************************)
(* Library mode: a command-line session that starts with masters of an     *)
(* earlier session in the aux and working directories                      *)
(***************************************************************************)
LibraryMaster(val, unit) == [Frame("", "", 0, 1, val, "ok") EXCEPT !.unit = unit]

\* the master files an earlier session may have left; the copies in the
\* two directories differ in content
LibraryStock ==
    { <<MasterDarkAuxPath(DefaultEnv), LibraryMaster(3, "adu/s")>>,
      <<MasterDarkPath(DefaultEnv), LibraryMaster(4, "adu/s")>>,
      <<MasterFlatPath(AuxDir, "R"), LibraryMaster(100, "adu")>>,
      <<MasterFlatPath(WorkDir, "R"), LibraryMaster(200, "adu")>>,
      <<MasterFlatNormPath(AuxDir, "R"), LibraryMaster(2, "adu")>>,
      <<MasterFlatNormPath(WorkDir, "R"), LibraryMaster(5, "adu")>>,
      <<MasterFlatNormPath(WorkDir, "V"), LibraryMaster(2, "adu")>> }

StockFiles(stock) ==
    [p \in {x[1] : x \in stock} |-> (CHOOSE x \in stock : x[1] = p)[2]]

\* the raw frames of a library session
LibraryPool ==
    {m \in Pool : ~m.sub /\ m.stem \in {<<"b", "1">>, <<"d", "1">>, <<"f", "1">>,
                                         <<"o", "1">>, <<"o", "2">>}}

LibrarySources == {S \in SUBSET LibraryPool : Cardinality(S) <= MaxFrames}

LibInit ==
    /\ \E members \in LibrarySources, stock \in SUBSET LibraryStock,
          dl, fl \in BOOLEAN, plan \in SUBSET {"bias", "dark", "flat"} :
          /\ env = [DefaultEnv EXCEPT
                      !.orch = "cli", !.members = members,
                      !.dark_lib = dl, !.flat_lib = fl]
          /\ fs = Merge(FilesOf(members, "directory"), StockFiles(stock))
          /\ tool = [ToolInit EXCEPT !.plan = plan]
    /\ lists = [n \in ListNames |-> NoList]
    /\ pc = "PrepLists"
    /\ run = RunInit
    /\ log = <<>>
    /\ written = {}
    /\ err = ""

LibSpec == LibInit /\ [][ToolNext]_vars

\* C16: in dark library mode the builder combines nothing and writes or
\* modifies no file; it returns the library dark of the aux directory if
\* there is one, otherwise the one of the working directory, and fails
\* with an error if neither directory has it
C16_DarkLibraryLookup ==
    \A i \in DOMAIN tool.calls :
        LET c == tool.calls[i]
            aux == MasterDarkAuxPath(env)
            wrk == MasterDarkPath(env)
        IN (c.name = "mkmasterdark" /\ env.dark_lib) =>
               /\ c.wrote = {}
               /\ PostOf(i) = c.pre
               /\ IF IsFile(c.pre, aux) THEN c.err = "" /\ c.out = <<aux>>
                  ELSE IF IsFile(c.pre, wrk) THEN c.err = "" /\ c.out = <<wrk>>
                  ELSE c.err = "FileNotFoundError"

\* library mode on, a library dark in both directories, the builder has
\* run and returned the aux copy
C16_Witness ==
    \E i \in DOMAIN tool.calls :
        LET c == tool.calls[i]
        IN /\ c.name = "mkmasterdark" /\ env.dark_lib
           /\ IsFile(c.pre, MasterDarkAuxPath(env))
           /\ IsFile(c.pre, MasterDarkPath(env))
           /\ c.pre[MasterDarkAuxPath(env)] # c.pre[MasterDarkPath(env)]
           /\ c.out = <<MasterDarkAuxPath(env)>>
           /\ \E k \in DOMAIN c.input : ImageType(c.pre, c.input[k]) = DarkLabel(env)

\* C17: for flats the aux directory is the primary library source: when a
\* normalized master flat of a filter exists in both directories, the
\* mapping emitted in flat library mode names the aux file, and the flat
\* applier divides by the aux file
C17_AuxIsPrimaryFlatLibrary ==
    \A i \in DOMAIN tool.calls : \A filt \in FilterValues :
        LET c == tool.calls[i]
            auxn == MasterFlatNormPath(env.cfg_aux_dir, filt)
            wrkn == MasterFlatNormPath(env.cfg_working_dir, filt)
        IN (IsFile(c.pre, auxn) /\ IsFile(c.pre, wrkn)) =>
             /\ ( /\ c.name = "mkmasterflats" /\ env.flat_lib
                  /\ \/ IsFile(c.pre, MasterFlatPath(env.cfg_aux_dir, filt))
                     \/ IsFile(c.pre, MasterFlatPath(env.cfg_working_dir, filt)) )
                    => (auxn \in Range(c.out) /\ wrkn \notin Range(c.out))
             /\ c.name = "flat_correction" =>
                    \A k \in DOMAIN c.input :
                        LET p == c.input[k]
                        IN (IsFile(c.pre, p) /\ c.pre[p].filt = filt
                              /\ FlatName(env, p) \in c.wrote) =>
                                 PostOf(i)[FlatName(env, p)].val =
                                     FlatDivide(c.pre[p].val, c.pre[auxn].val)

(***************************************************************************)
(* Role labels                                                             *)
(***************************************************************************)
\* the bias label and the dark label a tool compares a frame's role with
UsedBiasLabel(name) ==
    IF name = "dark_correction" THEN DarkApplierBiasLabel(env) ELSE BiasLabel(env)

UsedDarkLabel(name) == DarkLabel(env)

\* C18: every builder and applier decides a frame's role by the label
\* derived from the configuration: in a session, the bias label and the
\* dark label an applier compares roles with are the labels the builders
\* selected their frames with
C18_AppliersUseTheBuildersLabels ==
    \A i, j \in DOMAIN tool.calls :
        LET b == tool.calls[i]
            a == tool.calls[j]
        IN /\ (b.name = "mkmasterbias" /\ a.name \in {"bias_correction", "dark_correction"})
                 => UsedBiasLabel(a.name) = UsedBiasLabel(b.name)
           /\ (b.name = "mkmasterdark" /\ a.name = "dark_correction")
                 => UsedDarkLabel(a.name) = UsedDarkLabel(b.name)

(***************************************************************************)
(* The flat applier and the filters                                        *)
(***************************************************************************)
\* the normalized master flats of filter filt that exist in file system f
NormMastersOf(f, filt) ==
    {q \in {MasterFlatNormPath(env.cfg_working_dir, filt),
            MasterFlatNormPath(env.cfg_aux_dir, filt)} : IsFile(f, q)}

\* C19: in the flat applier an object exposure whose filter has no
\* normalized master flat is skipped: no output file is written for it and
\* it is absent from the output list; the other object exposures, whose
\* filter has a sound normalized master of their shape, are still processed
C19_NoMasterForFilterSkipsExposure ==
    \A i \in DOMAIN tool.calls :
        LET c == tool.calls[i]
        IN (c.name = "flat_correction" /\ c.err = "") =>
             \A k \in DOMAIN c.input :
                LET p == c.input[k]
                    ms == NormMastersOf(c.pre, c.pre[p].filt)
                IN (CanReadData(c.pre, p) /\ ImageType(c.pre, p) = "OBJECT") =>
                     /\ ms = {} =>
                           /\ FlatName(env, p) \notin c.wrote
                           /\ FlatName(env, p) \notin Range(c.out)
                     /\ (/\ ms # {}
                         /\ \A q \in ms : /\ CanReadData(c.pre, q)
                                          /\ c.pre[q].shape = c.pre[p].shape)
                           => /\ FlatName(env, p) \in c.wrote
                              /\ FlatName(env, p) \in Range(c.out)

\* one run of the flat applier that skipped an exposure for want of a
\* master of its filter and corrected another exposure
C19_Witness ==
    \E i \in DOMAIN tool.calls :
        LET c == tool.calls[i]
        IN /\ c.name = "flat_correction" /\ c.err = ""
           /\ \E k, m \in DOMAIN c.input :
                LET p == c.input[k]
                    q == c.input[m]
                IN /\ CanReadData(c.pre, p) /\ ImageType(c.pre, p) = "OBJECT"
                   /\ NormMastersOf(c.pre, c.pre[p].filt) = {}
                   /\ FlatName(env, p) \notin c.wrote
                   /\ k < m
                   /\ CanReadData(c.pre, q) /\ ImageType(c.pre, q) = "OBJECT"
                   /\ FlatName(env, q) \in c.wrote

(***************************************************************************)
(* The post-processors                                                     *)
(***************************************************************************)
\* C20: a post-processor never alters the frame count: the list overscan
\* returns has one entry per input frame, in the same order (the corrected
\* file, or the input itself when the frame could not be corrected), and
\* cosmetic repair and background subtraction return the list they received
C20_PostProcessorsKeepFrameCount ==
    [][ /\ (pc = "Overscanning" /\ OverscanRuns(env)) =>
              /\ Len(run'.files_for_pipeline) = Len(run.input_files)
              /\ \A k \in DOMAIN run.input_files :
                    run'.files_for_pipeline[k] \in
                        {run.input_files[k], OverscanName(run.input_files[k])}
        /\ (pc = "Cosmetic" /\ CosmeticRuns(env) /\ ~run.final_files.none) =>
              /\ pc' = StageAfter(env.orch, "Cosmetic")
              /\ run'.final_files = run.final_files
        /\ (pc = "Background" /\ env.bkg_enabled /\ ~run.final_files.none) =>
              /\ pc' = StageAfter(env.orch, "Background")
              /\ run'.final_files = run.final_files
      ]_vars

\* a finished run in which overscan corrected one frame and forwarded
\* another uncorrected, and cosmetic repair and background subtraction both
\* worked on a non-empty list
C20_Witness ==
    /\ pc = "Done"
    /\ {"Overscanning", "Cosmetic", "Background"} \subseteq Range(run.trace)
    /\ Len(run.files_for_pipeline) = Len(run.input_files)
    /\ \E k, m \in DOMAIN run.input_files :
          /\ k < m
          /\ run.files_for_pipeline[k] = run.input_files[k]
          /\ run.files_for_pipeline[m] = OverscanName(run.input_files[m])
    /\ ~run.final_files.none
    /\ run.final_files.items # <<>>
    /\ \E w \in written : w.stage = "Cosmetic"
    /\ \E w \in written : w.stage = "Background"

(***************************************************************************)
(* Overscan regions: runs on a directory, the package orchestrator with    *)
(* overscan enabled, for several settings of OVERSCAN.region               *)
(***************************************************************************)
\* "3:4,0:4", "3:6,0:4" (wider than a 4x4 frame), not set, not parseable
OverscanRegions ==
    { OverscanRegion, Region("ok", 3, 6, 0, 4),
      Region("unset", 0, 0, 0, 0), Region("invalid", 0, 0, 0, 0) }

OvInit ==
    /\ \E orch \in {"pkg", "legacy"}, members \in Sources,
          region \in OverscanRegions, b, d, fl, cos, bkg \in BOOLEAN :
          /\ orch = "legacy" => (region = OverscanRegion /\ ~cos /\ ~bkg)
          /\ env = [DefaultEnv EXCEPT
                      !.orch = orch, !.src_type = "directory", !.members = members,
                      !.bias_subtraction = b, !.dark_correction = d,
                      !.flat_correction = fl, !.ov_enabled = (orch = "pkg"),
                      !.ov_region = region,
                      !.cos_enabled = cos, !.bkg_enabled = bkg]
          /\ fs = FilesOf(members, "directory")
    /\ lists = [n \in ListNames |-> NoList]
    /\ pc = "Collecting"
    /\ run = RunInit
    /\ log = <<>>
    /\ written = {}
    /\ err = ""
    /\ tool = ToolInit

OvSpec == OvInit /\ [][Next]_vars

\* the region does not lie inside a frame of this shape
OutOfBounds(region, shape) ==
    \/ region.state # "ok"
    \/ region.x1 >= region.x2 \/ region.y1 >= region.y2
    \/ region.x1 < 0 \/ region.y1 < 0
    \/ region.x2 > Dims(shape).xs \/ region.y2 > Dims(shape).ys

\* C21: when the configured overscan region is unparseable, empty or
\* extends beyond a frame's dimensions, the overscan stage forwards the
\* original path of that frame, produces no corrected copy of it, and the
\* run does not fail
C21_BadRegionPassesFrameThrough ==
    [][ (pc = "Overscanning" /\ env.ov_enabled) =>
           /\ pc' # "Aborted"
           /\ Len(run'.files_for_pipeline) = Len(run.input_files)
           /\ \A k \in DOMAIN run.input_files :
                 LET p == run.input_files[k]
                 IN (CanReadData(fs, p) /\ OutOfBounds(env.ov_region, fs[p].shape)) =>
                       /\ run'.files_for_pipeline[k] = p
                       /\ OverscanName(p) \notin DOMAIN fs'
                       /\ fs'[p] = fs[p]
      ]_vars

(***************************************************************************)
(* Input resolution                                                        *)
(***************************************************************************)
\* C22: for every source type the list _collect_input_files returns is in
\* ascending order and contains no path twice
C22_InputsSortedAndDeduplicated ==
    "Collecting" \in Range(run.trace) =>
        \A i, j \in DOMAIN run.input_files :
            i < j => PathLess(run.input_files[i], run.input_files[j])

(***************************************************************************)
(* Where a run writes                                                      *)
(***************************************************************************)
Inside(p, dir) == IsPrefix(dir, p.dir)

\* C23: every file a run writes lies in the run context: overscan-, bias-
\* and dark-corrected frames and masters inside the working directory (the
\* mirrored masters inside the aux directory), final calibrated frames
\* inside the results directory; and every path of the returned final list
\* lies in the results directory
C23_WritesLieInRunContext ==
    /\ \A w \in written :
          /\ w.stage \in {"Overscanning", "BiasCorrecting", "DarkCorrecting"}
                => Inside(w.path, env.working_dir)
          /\ w.stage \in {"BiasBuilding", "DarkBuilding", "FlatBuilding"}
                => (Inside(w.path, env.working_dir) \/ Inside(w.path, env.results_aux_dir))
          /\ w.stage = "FlatCorrecting" => Inside(w.path, env.results_dir)
    /\ (pc = "Done" /\ ~run.ret.none) =>
          \A k \in DOMAIN run.ret.items : Inside(run.ret.items[k], env.results_dir)

(***************************************************************************)
(* The flat builder on its own: calib_prep_lists, mkmasterflats and        *)
(* flat_correction run on a directory of flat candidates                   *)
(***************************************************************************)
FlatPool ==
    { Entry(FALSE, <<"f", "1">>, ".fits", Frame("FLAT", "R", 2, 1, 116, "ok")),
      Entry(FALSE, <<"f", "2">>, ".fits", Frame("FLAT", "R", 2, 2, 116, "ok")),
      Entry(FALSE, <<"f", "3">>, ".fits", Frame("FLAT", "R", 2, 1, 90, "ok")),
      Entry(FALSE, <<"f", "4">>, ".fits", Frame("FLAT", "R", 2, 1, 130, "ok")),
      Entry(FALSE, <<"f", "5">>, ".fits", Frame("FLAT", "", 2, 1, 116, "ok")),
      Entry(FALSE, <<"f", "6">>, ".fits", Frame("FLAT", "V", 2, 1, 110, "ok")),
      Entry(FALSE, <<"o", "1">>, ".fits", Frame("OBJECT", "R", 20, 1, 570, "ok")) }

FlatSources == {S \in SUBSET FlatPool : Cardinality(S) <= MaxFrames}

\* FLAT_CORRECTION.flat_min_value and flat_max_value (0: no upper limit)
FlatLimits == { <<0, 0>>, <<100, 0>>, <<100, 120>> }

\* HEADER_SPECIFICATION.filters
FilterLists == { {}, {"R"} }

FlatInit ==
    /\ \E members \in FlatSources, lim \in FlatLimits, allowed \in FilterLists :
          /\ env = [DefaultEnv EXCEPT
                      !.orch = "cli", !.members = members,
                      !.flat_min_value = lim[1], !.flat_max_value = lim[2],
                      !.filters = allowed]
          /\ fs = FilesOf(members, "directory")
    /\ tool = [ToolInit EXCEPT !.plan = {"flat"}]
    /\ lists = [n \in ListNames |-> NoList]
    /\ pc = "PrepLists"
    /\ run = RunInit
    /\ log = <<>>
    /\ written = {}
    /\ err = ""

FlatNext ==
    \/ PrepLists
    \/ ToolMasterFlats
    \/ ToolFlatCorrection

FlatSpec == FlatInit /\ [][FlatNext]_vars

\* role, filter and signal level of the frame at p pass the builder's tests
PassesLevels(f, p) ==
    /\ f[p].typ = "FLAT"
    /\ f[p].filt # ""
    /\ (env.filters = {} \/ f[p].filt \in env.filters)
    /\ f[p].val >= env.flat_min_value
    /\ (env.flat_max_value > 0 => f[p].val <= env.flat_max_value)

\* the candidates the builder should accept for filter filt: those that
\* pass the tests and have the shape of the first one that does
ShouldAccept(f, files, filt) ==
    LET ok == SelectSeq(files, LAMBDA p : PassesLevels(f, p) /\ f[p].filt = filt)
    IN SelectSeq(ok, LAMBDA p : f[p].shape = f[ok[1]].shape)

C25_RawInputsNeverWritten ==
    \A w \in written :
        w.stage # "Collecting" => w.path \notin Range(run.input_files)

(***************************************************************************)
(* Complete input sets: runs whose raw source holds a readable bias, dark, *)
(* flat and object frame, and possibly other frames                        *)
(***************************************************************************)
CoreFrames ==
    {m \in Pool : ~m.sub /\ m.stem \in {<<"b", "1">>, <<"d", "1">>,
                                         <<"f", "1">>, <<"o", "1">>}}

\* the core frames with at most MaxFrames - 2 further frames
FullSources ==
    {CoreFrames \cup S : S \in {T \in SUBSET (Pool \ CoreFrames) :
                                   Cardinality(T) <= MaxFrames - 2}}

FullInit ==
    /\ \E orch \in {"pkg", "legacy"}, type \in {"directory", "list", "archive"},
          members \in FullSources, b, d, fl, ov, cos, bkg \in BOOLEAN :
          /\ orch = "legacy" => ~ov /\ ~cos /\ ~bkg
          /\ env = [DefaultEnv EXCEPT
                      !.orch = orch, !.src_type = type, !.members = members,
                      !.lines = IF type = "list" THEN LinesOf(members, FALSE) ELSE <<>>,
                      !.bias_subtraction = b, !.dark_correction = d,
                      !.flat_correction = fl, !.ov_enabled = ov,
                      !.cos_enabled = cos, !.bkg_enabled = bkg]
          /\ fs = IF type = "archive" THEN FilesOf({}, type)
                  ELSE FilesOf(members, type)
    /\ lists = [n \in ListNames |-> NoList]
    /\ pc = "Collecting"
    /\ run = RunInit
    /\ log = <<>>
    /\ written = {}
    /\ err = ""
    /\ tool = ToolInit

FullSpec == FullInit /\ [][Next]_vars

AllMainStages ==
    /\ env.bias_subtraction /\ env.dark_correction /\ env.flat_correction
    /\ ~env.dark_lib /\ ~env.flat_lib

\* the collected input holds a readable frame of each of the four kinds
CompleteInput ==
    \A typ \in {BiasLabel(env), DarkLabel(env), "FLAT", "OBJECT"} :
        \E k \in DOMAIN run.input_files :
            /\ CanReadData(fs, run.input_files[k])
            /\ ImageType(fs, run.input_files[k]) = typ

\* C27: for an input set with readable bias, dark, flat and object frames,
\* with the bias, dark and flat stages enabled and library mode off,
\* run_full_calibration does not raise: every call it makes to a builder or
\* applier is accepted by the callee and the run goes on to Done
C27_FullRunDoesNotRaise ==
    ("Collecting" \in Range(run.trace) /\ AllMainStages /\ CompleteInput)
        => pc # "Aborted"

\* the object frames of the input that the three appliers can correct:
\* readable, with a positive exposure duration and a flat of their filter
\* among the input
Correctable ==
    {p \in Range(run.input_files) :
        /\ CanReadData(fs, p) /\ ImageType(fs, p) = "OBJECT" /\ fs[p].exp > 0
        /\ \E q \in Range(run.input_files) :
              /\ CanReadData(fs, q) /\ ImageType(fs, q) = "FLAT"
              /\ fs[q].filt = fs[p].filt}

\* the name of a frame after the three corrections
FullyCorrectedName(p) ==
    Path(env.cfg_results_dir, p.stem \o <<"-", "b", "d", "f">>, p.ext)

\* C26: with the three main stages enabled, every object frame of the
\* input that is readable, has a valid exposure duration and a master flat
\* of its filter appears exactly once in the final list the run returns: a
\* run on a complete input ends by returning a list with one entry for it
C26_EveryObjectFrameReturnedOnce ==
    ("Collecting" \in Range(run.trace) /\ AllMainStages /\ CompleteInput
        /\ Distinct(run.input_files) /\ pc \in {"Done", "Aborted"}) =>
       /\ pc = "Done"
       /\ ~run.ret.none
       /\ \A p \in Correctable :
             Cardinality({k \in DOMAIN run.ret.items :
                             run.ret.items[k] = FullyCorrectedName(p)}) = 1

(***************************************************************************)
(* What the master builders are given                                      *)
(***************************************************************************)
Listed == pc \notin {"Collecting", "Overscanning", "Listing"}

C29_OnlyMastersOfThisRun ==
    \A i, j \in DOMAIN tool.calls :
        LET b == tool.calls[i]
            a == tool.calls[j]
        IN (/\ ~env.flat_lib
            /\ b.name = "mkmasterflats" /\ a.name = "flat_correction" /\ i < j) =>
              \A k \in DOMAIN a.input :
                 LET p == a.input[k]
                 IN (/\ CanReadData(a.pre, p)
                     /\ ImageType(a.pre, p) = "OBJECT"
                     /\ \A q \in Range(b.out) :
                           q.stem # <<"masterflat_", a.pre[p].filt, "_norm">>)
                       => FlatName(env, p) \notin a.wrote

(***************************************************************************)
(* Directory layouts: how the orchestrator and the tools find the working, *)
(* results and aux directories                                             *)
(***************************************************************************)
CwdDir == <<"/", "cwd">>

\* the three directories under a base directory
DirsUnder(base) ==
    [working |-> base \o <<"/", "work">>,
     results |-> base \o <<"/", "results">>,
     aux |-> base \o <<"/", "results", "/", "aux">>]

\* _init_dirs: the directories the orchestrator creates.  With root_dir
\* they lie under root_dir; otherwise the settings are resolved against the
\* directory of the configuration file
InitDirs(layout) ==
    IF layout.root_dir # <<>> THEN DirsUnder(layout.root_dir)
    ELSE IF layout.absolute THEN DirsUnder(RawDir)
    ELSE DirsUnder(layout.config_dir)

\* Path(cfg.get("DATA_STRUCTURE", ...)) in the builders and appliers: the
\* setting as written, which a relative path resolves against the current
\* directory of the process
CfgDirs(layout) ==
    IF layout.absolute THEN DirsUnder(RawDir) ELSE DirsUnder(layout.cwd)

Layout(absolute, root_dir, config_dir, cwd) ==
    [absolute |-> absolute, root_dir |-> root_dir, config_dir |-> config_dir,
     cwd |-> cwd]

\* absolute settings; relative settings with the process started in the
\* directory of the configuration file, or elsewhere; the root_dir override
\* of the GUI with relative settings
Layouts ==
    { Layout(TRUE, <<>>, RawDir, CwdDir),
      Layout(FALSE, <<>>, RawDir, RawDir),
      Layout(FALSE, <<>>, RawDir, CwdDir),
      Layout(FALSE, RawDir, CwdDir, CwdDir) }

DirInit ==
    /\ \E orch \in {"pkg", "legacy"}, members \in Sources, layout \in Layouts,
          b, d, fl, ov, cos, bkg \in BOOLEAN :
          /\ orch = "legacy" => ~ov /\ ~cos /\ ~bkg /\ layout.root_dir = <<>>
          /\ env = [DefaultEnv EXCEPT
                      !.orch = orch, !.src_type = "directory", !.members = members,
                      !.bias_subtraction = b, !.dark_correction = d,
                      !.flat_correction = fl, !.ov_enabled = ov,
                      !.cos_enabled = cos, !.bkg_enabled = bkg,
                      !.working_dir = IF orch = "pkg" THEN InitDirs(layout).working
                                      ELSE CfgDirs(layout).working,
                      !.results_dir = IF orch = "pkg" THEN InitDirs(layout).results
                                      ELSE CfgDirs(layout).results,
                      !.results_aux_dir = IF orch = "pkg" THEN InitDirs(layout).aux
                                          ELSE CfgDirs(layout).aux,
                      !.cfg_working_dir = CfgDirs(layout).working,
                      !.cfg_results_dir = CfgDirs(layout).results,
                      !.cfg_aux_dir = CfgDirs(layout).aux]
          /\ fs = FilesOf(members, "directory")
    /\ lists = [n \in ListNames |-> NoList]
    /\ pc = "Collecting"
    /\ run = RunInit
    /\ log = <<>>
    /\ written = {}
    /\ err = ""
    /\ tool = ToolInit

DirSpec == DirInit /\ [][Next]_vars

\* C30: all components of a run use the same run context: the masters are
\* written, and the final frames are written, in the working, aux and
\* results directories the orchestrator created at construction
C30_OneRunContext ==
    \A w \in written :
        /\ w.stage \in {"BiasBuilding", "DarkBuilding", "FlatBuilding"}
              => \/ Inside(w.path, env.working_dir)
                 \/ Inside(w.path, env.results_aux_dir)
        /\ w.stage = "FlatCorrecting" => Inside(w.path, env.results_dir)

====
